---------------------------- MODULE Spec2Model ----------------------------
(***************************************************************************)
(* protoc-gen-cobra: the client plugin (generator of cobra commands for    *)
(* gRPC services), the command invocation it generates, and the iocodec    *)
(* encoder/decoder registry the generated command uses.                    *)
(*                                                                         *)
(* Four state machines share this module:                                  *)
(*   SpecRun    one invocation of a generated subcommand                   *)
(*              (Run -> _RoundTrip -> method body -> log.Fatal)            *)
(*   SpecCodec  one sink/source pair written by an iocodec encoder and     *)
(*              read back by an iocodec decoder                            *)
(*   SpecInit   the plugin's client.Init, in two generator processes       *)
(*   SpecGen    the plugin's generateSubcommand                            *)
(*                                                                         *)
(* Go strings whose characters matter (file paths, package names, type     *)
(* paths, registry keys) are sequences of one-character strings.           *)
(***************************************************************************)
EXTENDS Integers, Sequences, FiniteSets, TLC

(***************************************************************************)
(* Bounds of the model.                                                    *)
(***************************************************************************)
\* longest request source, in request units
MaxUnits == 2
\* most Send calls followed in one invocation (the yaml send loop is unbounded)
MaxSends == 4
\* most response units the server streams before it completes or fails
MaxResp == 2

(***************************************************************************)
(* Strings as character sequences.                                         *)
(***************************************************************************)
Kjson == <<"j","s","o","n">>
Kprettyjson == <<"p","r","e","t","t","y","j","s","o","n">>
Kxml == <<"x","m","l">>
Kyaml == <<"y","a","m","l">>
Ktoml == <<"t","o","m","l">>

\* filepath.Ext: the suffix beginning at the final dot of the final path
\* element, empty if there is none
RECURSIVE ExtFrom(_, _)
ExtFrom(p, i) ==
    IF i = 0 \/ p[i] = "/" THEN <<>>
    ELSE IF p[i] = "." THEN SubSeq(p, i, Len(p))
    ELSE ExtFrom(p, i - 1)

Ext(p) == ExtFrom(p, Len(p))

\* an extension taken from the first dot of the path on
RECURSIVE RequestExtFirstDot(_)
RequestExtFirstDot(p) ==
    IF p = <<>> THEN <<>>
    ELSE IF Head(p) = "." THEN Tail(p)
    ELSE RequestExtFirstDot(Tail(p))

\* ext := filepath.Ext(cfg.RequestFile); if len(ext) > 0 && ext[0] == '.' { ext = ext[1:] }
RequestExt(p) ==
    LET ext == Ext(p)
    IN IF Len(ext) > 0 /\ ext[1] = "." THEN Tail(ext) ELSE ext

\* the bytes that occur in the names of the model, in byte order
ByteOrder ==
    <<"-", ".", "/",
      "0", "1", "2", "3", "4", "5", "6", "7", "8", "9",
      "A", "B", "C", "D", "E", "F", "G", "H", "I", "J", "K", "L", "M",
      "N", "O", "P", "Q", "R", "S", "T", "U", "V", "W", "X", "Y", "Z",
      "_",
      "a", "b", "c", "d", "e", "f", "g", "h", "i", "j", "k", "l", "m",
      "n", "o", "p", "q", "r", "s", "t", "u", "v", "w", "x", "y", "z">>

ByteRank ==
    [c \in {ByteOrder[i] : i \in 1..Len(ByteOrder)} |->
        CHOOSE i \in 1..Len(ByteOrder) : ByteOrder[i] = c]

Byte(c) == ByteRank[c]

\* s < t for Go strings
RECURSIVE StrLess(_, _)
StrLess(s, t) ==
    IF t = <<>> THEN FALSE
    ELSE IF s = <<>> THEN TRUE
    ELSE IF Head(s) = Head(t) THEN StrLess(Tail(s), Tail(t))
    ELSE Byte(Head(s)) < Byte(Head(t))

\* sort.Strings
RECURSIVE InsertSorted(_, _)
InsertSorted(sorted, x) ==
    IF sorted = <<>> THEN <<x>>
    ELSE IF StrLess(x, Head(sorted)) THEN <<x>> \o sorted
    ELSE <<Head(sorted)>> \o InsertSorted(Tail(sorted), x)

RECURSIVE SortStrings(_)
SortStrings(a) ==
    IF a = <<>> THEN <<>> ELSE InsertSorted(SortStrings(Tail(a)), Head(a))

\* strconv.Itoa of a positive number
RECURSIVE Itoa(_)
Itoa(n) ==
    LET d == ByteOrder[4 + (n % 10)]
    IN IF n < 10 THEN <<d>> ELSE Itoa(n \div 10) \o <<d>>

\* strings.Join
RECURSIVE Join(_, _)
Join(parts, sep) ==
    IF parts = <<>> THEN <<>>
    ELSE IF Len(parts) = 1 THEN parts[1]
    ELSE parts[1] \o sep \o Join(Tail(parts), sep)

\* strings.Split(s, ".")
RECURSIVE SplitDots(_, _)
SplitDots(s, cur) ==
    IF s = <<>> THEN <<cur>>
    ELSE IF Head(s) = "." THEN <<cur>> \o SplitDots(Tail(s), <<>>)
    ELSE SplitDots(Tail(s), Append(cur, Head(s)))

\* strings.Trim(s, ".")
RECURSIVE TrimDots(_)
TrimDots(s) ==
    IF s # <<>> /\ Head(s) = "." THEN TrimDots(Tail(s))
    ELSE IF s # <<>> /\ s[Len(s)] = "." THEN TrimDots(SubSeq(s, 1, Len(s) - 1))
    ELSE s

\* the file half of path.Split: what follows the final slash
RECURSIVE PathFile(_, _)
PathFile(s, i) ==
    IF i = 0 THEN s
    ELSE IF s[i] = "/" THEN SubSeq(s, i + 1, Len(s))
    ELSE PathFile(s, i - 1)

IsLower(c) == Byte(c) \in Byte("a")..Byte("z")
IsDigit(c) == Byte(c) \in Byte("0")..Byte("9")
IsUpper(c) == Byte(c) \in Byte("A")..Byte("Z")

ToUpper(c) == IF IsLower(c) THEN ByteOrder[Byte(c) - Byte("a") + Byte("A")] ELSE c
ToLowerByte(c) == IF IsUpper(c) THEN ByteOrder[Byte(c) - Byte("A") + Byte("a")] ELSE c

\* strings.ToLower
ToLower(s) == [i \in 1..Len(s) |-> ToLowerByte(s[i])]

(***************************************************************************)
(* Messages.  A request message has two string fields, like the example    *)
(* cache requests; "" is the zero value of a field.  A record of a request *)
(* source names each field or leaves it out (Absent); a record that is not *)
(* well formed has ok = FALSE.                                             *)
(***************************************************************************)
Absent == "<absent>"

Fields == {"key", "value"}

Zero == [key |-> "", value |-> ""]

RequestUnits ==
    { [ok |-> TRUE, key |-> "a", value |-> "x"],
      [ok |-> TRUE, key |-> "b", value |-> Absent],
      [ok |-> FALSE, key |-> Absent, value |-> Absent] }

ResponseUnits == { [reply |-> "r1"], [reply |-> "r2"] }

RECURSIVE SeqsUpTo(_, _)
SeqsUpTo(S, n) ==
    IF n = 0 THEN {<<>>}
    ELSE LET shorter == SeqsUpTo(S, n - 1)
         IN shorter \cup {Append(s, x) : s \in shorter, x \in S}

(***************************************************************************)
(* Bytes.  What an encoder writes and a decoder reads is a sequence of     *)
(* tokens: punctuation, white space, and one token per field.              *)
(***************************************************************************)
Tok(t) == [t |-> t, k |-> "", s |-> ""]

FieldTok(t, k, s) == [t |-> t, k |-> k, s |-> s]

\* the field tokens of a message, in field order, without the fields whose
\* value is in skip
FieldToks(t, m, skip) ==
    SelectSeq(<<FieldTok(t, "key", m.key), FieldTok(t, "value", m.value)>>,
              LAMBDA x : x.s \notin skip)

RECURSIVE SkipToks(_, _)
SkipToks(buf, ts) ==
    IF buf # <<>> /\ Head(buf).t \in ts THEN SkipToks(Tail(buf), ts) ELSE buf

RECURSIVE CountToks(_, _)
CountToks(buf, t) ==
    IF buf = <<>> THEN 0
    ELSE (IF Head(buf).t = t THEN 1 ELSE 0) + CountToks(Tail(buf), t)

\* a field token is stored into the message it names a field of; the other
\* fields keep what they held (encoding/json, encoding/xml and yaml.v2 all
\* decode into the value they are handed without clearing it first)
SetField(val, x) == [val EXCEPT ![x.k] = x.s]

(***************************************************************************)
(* iocodec encoders.                                                       *)
(***************************************************************************)
\* a registry whose "json" entry makes the yaml encoder
DefaultEncodersJsonIsYaml ==
    [k \in {Kxml, Kjson, Kprettyjson, Kyaml} |->
        IF k = Kxml THEN "xml"
        ELSE IF k = Kjson THEN "yaml"
        ELSE IF k = Kprettyjson THEN "prettyjson" ELSE "yaml"]

DefaultEncoders ==
    [k \in {Kxml, Kjson, Kprettyjson, Kyaml} |->
        IF k = Kxml THEN "xml"
        ELSE IF k = Kjson THEN "json"
        ELSE IF k = Kprettyjson THEN "prettyjson" ELSE "yaml"]

\* json.Marshal of a generated message: its fields are tagged omitempty
JsonMarshal(val) ==
    <<Tok("{")>> \o FieldToks("member", val, {""}) \o <<Tok("}")>>

\* json.Indent: a line break and indentation after the opening brace and
\* after each member of an object that has members
RECURSIVE JsonIndent(_)
JsonIndent(b) ==
    IF b = <<>> THEN <<>>
    ELSE IF Head(b).t = "{" /\ Len(b) > 1 /\ b[2].t = "}" THEN b
    ELSE IF Head(b).t \in {"{", "member"}
      THEN <<Head(b), Tok("ws")>> \o JsonIndent(Tail(b))
    ELSE <<Head(b)>> \o JsonIndent(Tail(b))

\* jsonEncoder.Encode
JsonEncode(val, pretty) ==
    IF pretty THEN JsonIndent(JsonMarshal(val)) \o <<Tok("nl")>>
    ELSE JsonMarshal(val) \o <<Tok("nl")>>

\* xmlEncoder.Encode: xml.Header, the indented element, a deferred "\n"
XmlEncode(val) ==
    LET f == FieldToks("elem", val, {})
    IN <<Tok("xmlheader"), Tok("start"), Tok("ws"), f[1], Tok("ws"), f[2],
         Tok("ws"), Tok("end"), Tok("nl")>>

\* yamlEncoder.Encode: yaml.Marshal writes every field, one per line
YamlEncode(val) == FieldToks("map", val, {})

Encode(kind, val) ==
    IF kind = "json" THEN JsonEncode(val, FALSE)
    ELSE IF kind = "prettyjson" THEN JsonEncode(val, TRUE)
    ELSE IF kind = "xml" THEN XmlEncode(val)
    ELSE YamlEncode(val)

(***************************************************************************)
(* iocodec decoders.  A decoder is handed the unread bytes of its reader   *)
(* and the value to decode into; it answers the error, the value and the   *)
(* bytes left unread.                                                      *)
(***************************************************************************)
DefaultDecoders ==
    [k \in {Kxml, Kjson, Kyaml} |->
        IF k = Kxml THEN "xml" ELSE IF k = Kjson THEN "json" ELSE "yaml"]

\* the fields of one object or element, up to its closing token
RECURSIVE DecodeFields(_, _, _, _)
DecodeFields(buf, val, fieldTok, closeTok) ==
    LET b == SkipToks(buf, {"ws"})
    IN IF b = <<>> THEN [err |-> "decode", v |-> val, src |-> b]
       ELSE IF Head(b).t = closeTok THEN [err |-> "nil", v |-> val, src |-> Tail(b)]
       ELSE IF Head(b).t = fieldTok
         THEN DecodeFields(Tail(b), SetField(val, Head(b)), fieldTok, closeTok)
       ELSE [err |-> "decode", v |-> val, src |-> Tail(b)]

\* json.Decoder.Decode: the next value of the stream; io.EOF when only white
\* space is left
JsonDecode(buf, val) ==
    LET b == SkipToks(buf, {"ws", "nl"})
    IN IF b = <<>> THEN [err |-> "EOF", v |-> val, src |-> b]
       ELSE IF Head(b).t = "{" THEN DecodeFields(Tail(b), val, "member", "}")
       ELSE [err |-> "decode", v |-> val, src |-> Tail(b)]

\* xml.Decoder.Decode: the next element of the stream, the header and white
\* space before it passed over; io.EOF when no element is left
XmlDecode(buf, val) ==
    LET b == SkipToks(buf, {"xmlheader", "ws", "nl"})
    IN IF b = <<>> THEN [err |-> "EOF", v |-> val, src |-> b]
       ELSE IF Head(b).t = "start" THEN DecodeFields(Tail(b), val, "elem", "end")
       ELSE [err |-> "decode", v |-> val, src |-> Tail(b)]

\* yaml.Unmarshal: the first document of b is decoded into val; no document
\* at all leaves val alone and is no error
RECURSIVE YamlUnmarshalDoc(_, _)
YamlUnmarshalDoc(b, val) ==
    IF b = <<>> \/ Head(b).t = "docsep" THEN [err |-> "nil", v |-> val]
    ELSE IF Head(b).t = "map" THEN YamlUnmarshalDoc(Tail(b), SetField(val, Head(b)))
    ELSE [err |-> "decode", v |-> val]

YamlUnmarshal(b, val) ==
    LET c == SkipToks(b, {"ws", "nl"})
    IN YamlUnmarshalDoc(IF c # <<>> /\ Head(c).t = "docsep" THEN Tail(c) ELSE c, val)

\* yamlDecoder.Decode: ioutil.ReadAll drains the reader (and reports no
\* error at its end), yaml.Unmarshal decodes what was read
YamlDecode(buf, val) ==
    LET r == YamlUnmarshal(buf, val)
    IN [err |-> r.err, v |-> r.v, src |-> <<>>]

Decode(kind, buf, val) ==
    IF kind = "json" THEN JsonDecode(buf, val)
    ELSE IF kind = "xml" THEN XmlDecode(buf, val)
    ELSE YamlDecode(buf, val)

(***************************************************************************)
(* Request sources.  A source holds its records one per line (json), as    *)
(* consecutive elements (xml) or as consecutive documents (yaml).          *)
(***************************************************************************)
RecordBytes(kind, u) ==
    IF kind = "yaml"
      THEN <<Tok("docsep")>> \o
           (IF u.ok THEN FieldToks("map", u, {Absent}) ELSE <<Tok("badmap")>>)
    ELSE IF ~u.ok THEN <<Tok("garbage"), Tok("nl")>>
    ELSE IF kind = "xml"
      THEN <<Tok("start")>> \o FieldToks("elem", u, {Absent}) \o <<Tok("end"), Tok("nl")>>
    ELSE <<Tok("{")>> \o FieldToks("member", u, {Absent}) \o <<Tok("}"), Tok("nl")>>

RECURSIVE SourceBytes(_, _)
SourceBytes(kind, units) ==
    IF units = <<>> THEN <<>>
    ELSE RecordBytes(kind, Head(units)) \o SourceBytes(kind, Tail(units))

\* the records of a source that have not been read
RecordsLeft(buf) ==
    CountToks(buf, "{") + CountToks(buf, "start") + CountToks(buf, "garbage")
    + CountToks(buf, "docsep")

\* what a record leaves of a value it is decoded into
Merge(val, u) ==
    [f \in Fields |-> IF u[f] = Absent THEN val[f] ELSE u[f]]

(***************************************************************************)
(* The subcommand template.  A rendered body is the sequence of statements *)
(* the template leaves for one (ClientStream, ServerStream) pair.          *)
(***************************************************************************)
\* a template whose second block tests .ClientStream where it should test
\* .ServerStream
RenderSubcommandBodySwapped(ClientStream, ServerStream) ==
    (IF ClientStream
       THEN <<"OpenStream", "SendLoop">>
       ELSE <<"DecodeOne">> \o
            (IF ServerStream THEN <<"CallStream">> ELSE <<"CallUnary">>))
    \o
    (IF ClientStream
       THEN <<"RecvLoop", "ReturnNil">>
       ELSE (IF ServerStream THEN <<"CloseAndRecv">> ELSE <<>>) \o
            <<"EncodeResp">>)

RenderSubcommandBody(ClientStream, ServerStream) ==
    (IF ClientStream
       THEN <<"OpenStream", "SendLoop">>
       ELSE <<"DecodeOne">> \o
            (IF ServerStream THEN <<"CallStream">> ELSE <<"CallUnary">>))
    \o
    (IF ServerStream
       THEN <<"RecvLoop", "ReturnNil">>
       ELSE (IF ClientStream THEN <<"CloseAndRecv">> ELSE <<>>) \o
            <<"EncodeResp">>)

(***************************************************************************)
(* State.                                                                  *)
(***************************************************************************)
VARIABLES
    \* ---- one invocation of a generated subcommand ----
    cfg,      \* _DefaultXClientCommandConfig: ResponseFormat, PrintSampleRequest, RequestFile
    method,   \* ClientStream and ServerStream of the method the subcommand was generated for
    body,     \* the rendered body of the subcommand
    input,    \* the records of the request source (stdin or the request file)
    src,      \* the bytes not yet read from the request source
    v,        \* var v InputType of Run
    em,       \* key of the encoder maker chosen by _RoundTrip
    dec,      \* the decoder chosen by _RoundTrip ("none" before)
    pc,       \* position: start, dial, fn, return, check, done
    ip,       \* index into body of the statement being executed
    sub,      \* position inside a loop statement: decode, send, recv, encode
    err,      \* the error value being returned
    conn,     \* the grpc.ClientConn: none, open, closed
    file,     \* the request file handle: none, open, closed
    cnt,      \* how often each blocking operation was attempted
    sent,     \* request units the call has been handed, in order
    fed,      \* v after each Decode that returned nil, in order
    recvd,    \* response units received from the call, in order
    resp,     \* the response unit in hand
    lastRecv, \* what the last stream.Recv returned: none, nil, EOF or rpc
    lastOp,   \* the last operation attempted and the error it returned
    out,      \* values written to os.Stdout, in order
    outcome,  \* running, ok (Run returned) or fatal (log.Fatal)
    \* ---- one sink/source written by an encoder, read by a decoder ----
    cFormat,    \* the key the encoder is looked up under
    cDecKey,    \* the key the decoder is looked up under
    cValue,     \* the value handed to Encode
    cBuf,       \* the bytes written and not yet read
    cTarget,    \* the value Decode decodes into
    cErr,       \* the error of the last Decode ("none" before the first)
    cExhausted, \* whether the last Decode began on an exhausted source
    cPhase,     \* init, encoded, decoded (once after Encode), drained
    cDecodes,   \* Decode calls so far
    \* ---- the plugin, in two generator processes handed the same request ----
    preNames,   \* pkgNamesInUse as the generator leaves it before the plugins' Init
    genFile,    \* the file being generated: its package and its methods
    inited,     \* per process: client.Init has run
    pkgNamesInUse,        \* per process: the generator's registry of names in use
    uniqueName,           \* per process: importPkgsByName[k].UniqueName
    sortedImportPkgNames, \* per process: the sorted keys
    emitted,    \* the subcommands generated so far (process 1)
    resolved,   \* importName, inputPackage, inputType of each generateSubcommand call
    genFailed,  \* c.gen.Error was called: generation of the file is aborted
    imports,    \* the files handed to GenerateImports as the imports of the file
    importsDone,  \* GenerateImports has returned
    referenceLines, \* the reference lines Generate printed for the keys
    supportLines, \* the import lines printed for the keys of importPkgsByName
    importLines,  \* the import lines printed for the packages of input types
    \* ---- the configuration of the commands of one service ----
    env,      \* the environment of the process: per option, its variable
    flags,    \* the command line: per option, the value of its flag
    conf,     \* _DefaultXClientCommandConfig, field by field
    confPc,   \* start, loaded (envconfig.Process), flags (AddFlags), parsed
    procErr,  \* what envconfig.Process returned, which the caller drops
    \* ---- the Bank of the example server ----
    mu,             \* Bank.mu: 0 when unlocked, else the call that holds it
    accountBalance, \* Bank.accountBalance; an account not in the map reads 0
    calls           \* per Deposit call: its request, its position, v, its result

runVars == <<cfg, method, body, input, src, v, em, dec, pc, ip, sub, err,
             conn, file, cnt, sent, fed, recvd, resp, lastRecv, lastOp, out,
             outcome>>

codecVars == <<cFormat, cDecKey, cValue, cBuf, cTarget, cErr, cExhausted,
               cPhase, cDecodes>>

genVars == <<preNames, genFile, inited, pkgNamesInUse, uniqueName,
             sortedImportPkgNames, emitted, resolved, genFailed, imports,
             importsDone, referenceLines, supportLines, importLines>>

confVars == <<env, flags, conf, confPc, procErr>>

bankVars == <<mu, accountBalance, calls>>

vars == <<runVars, codecVars, genVars, confVars, bankVars>>

(***************************************************************************)
(* The configuration surface of the generated commands.                    *)
(***************************************************************************)
\* the fields of _XClientCommandConfig, in the order the struct lists them
OptionOrder ==
    << "ServerAddr",
       "RequestFile",
       "PrintSampleRequest",
       "ResponseFormat",
       "Timeout",
       "TLS",
       "ServerName",
       "InsecureSkipVerify",
       "CACertFile",
       "CertFile",
       "KeyFile",
       "AuthToken",
       "AuthTokenType",
       "JWTKey",
       "JWTKeyFile" >>

Options == {OptionOrder[i] : i \in 1..Len(OptionOrder)}

\* the type of each field
OptionType ==
    "ServerAddr" :> "string" @@
    "RequestFile" :> "string" @@
    "PrintSampleRequest" :> "bool" @@
    "ResponseFormat" :> "string" @@
    "Timeout" :> "duration" @@
    "TLS" :> "bool" @@
    "ServerName" :> "string" @@
    "InsecureSkipVerify" :> "bool" @@
    "CACertFile" :> "string" @@
    "CertFile" :> "string" @@
    "KeyFile" :> "string" @@
    "AuthToken" :> "string" @@
    "AuthTokenType" :> "string" @@
    "JWTKey" :> "string" @@
    "JWTKeyFile" :> "string"

\* the default tag of each field, empty where the field has none
DefaultTag ==
    "ServerAddr" :> "localhost:8080" @@
    "RequestFile" :> "" @@
    "PrintSampleRequest" :> "" @@
    "ResponseFormat" :> "json" @@
    "Timeout" :> "10s" @@
    "TLS" :> "" @@
    "ServerName" :> "" @@
    "InsecureSkipVerify" :> "" @@
    "CACertFile" :> "" @@
    "CertFile" :> "" @@
    "KeyFile" :> "" @@
    "AuthToken" :> "" @@
    "AuthTokenType" :> "Bearer" @@
    "JWTKey" :> "" @@
    "JWTKeyFile" :> ""

\* the zero value of a field of the type
ZeroValue(type) ==
    IF type = "bool" THEN "false" ELSE IF type = "duration" THEN "0s" ELSE ""

\* the configuration while it is not the machine being run
ConfIdle ==
    /\ env = [o \in Options |-> "unset"]
    /\ flags = [o \in Options |-> "notgiven"]
    /\ conf = [o \in Options |-> ZeroValue(OptionType[o])]
    /\ confPc = "idle"
    /\ procErr = "nil"

\* the Bank while it is not the machine being run
BankIdle ==
    /\ mu = 0
    /\ accountBalance = <<>>
    /\ calls = <<>>

\* the plugin while it is not the machine being run
GenIdle ==
    /\ preNames = {}
    /\ genFile = [Package |-> <<>>, Method |-> <<>>]
    /\ inited = [p \in {1, 2} |-> FALSE]
    /\ pkgNamesInUse = [p \in {1, 2} |-> {}]
    /\ uniqueName = [p \in {1, 2} |-> <<>>]
    /\ sortedImportPkgNames = [p \in {1, 2} |-> <<>>]
    /\ emitted = <<>>
    /\ resolved = <<>>
    /\ genFailed = FALSE
    /\ imports = <<>>
    /\ importsDone = FALSE
    /\ referenceLines = <<>>
    /\ supportLines = <<>>
    /\ importLines = <<>>

\* the codec pair while it is not the machine being run
CodecIdle ==
    /\ cFormat = Kjson
    /\ cDecKey = Kjson
    /\ cValue = Zero
    /\ cBuf = <<>>
    /\ cTarget = Zero
    /\ cErr = "none"
    /\ cExhausted = FALSE
    /\ cPhase = "idle"
    /\ cDecodes = 0

\* the command invocation while it is not the machine being run
RunIdle ==
    /\ cfg = [ResponseFormat |-> <<>>, PrintSampleRequest |-> FALSE, RequestFile |-> <<>>]
    /\ method = [ClientStream |-> FALSE, ServerStream |-> FALSE]
    /\ body = <<>>
    /\ input = <<>>
    /\ src = <<>>
    /\ v = Zero
    /\ em = <<>>
    /\ dec = "none"
    /\ pc = "idle"
    /\ ip = 0
    /\ sub = "none"
    /\ err = "nil"
    /\ conn = "none"
    /\ file = "none"
    /\ cnt = [opens |-> 0, dials |-> 0, calls |-> 0, reads |-> 0, sends |-> 0,
              recvs |-> 0, closeSends |-> 0, closeAndRecvs |-> 0, encodes |-> 0]
    /\ sent = <<>>
    /\ fed = <<>>
    /\ recvd = <<>>
    /\ resp = [reply |-> ""]
    /\ lastRecv = "none"
    /\ lastOp = [op |-> "none", err |-> "nil"]
    /\ out = <<>>
    /\ outcome = "running"

(***************************************************************************)
(* SpecRun: a command invocation.                                          *)
(***************************************************************************)
ResponseFormats == {<<>>, Kjson, Kprettyjson, Kxml, Kyaml, Ktoml}

RequestFiles ==
    { <<>>, <<"-">>,
      <<"r", ".", "j", "s", "o", "n">>,
      <<"r", ".", "y", "a", "m", "l">>,
      <<"r", ".", "x", "m", "l">>,
      <<"r", ".", "t", "x", "t">>,
      <<"r", "e", "q">>,
      <<"d", ".", "x", "m", "l", "/", "r">>,
      <<"r", ".", "y", "a", "m", "l", ".", "j", "s", "o", "n">> }

\* the format the request source is written in: the one its name announces
SourceKind(path) ==
    IF RequestExt(path) \in DOMAIN DefaultDecoders
      THEN DefaultDecoders[RequestExt(path)]
      ELSE "json"

ZeroCnt ==
    [opens |-> 0, dials |-> 0, calls |-> 0, reads |-> 0, sends |-> 0,
     recvs |-> 0, closeSends |-> 0, closeAndRecvs |-> 0, encodes |-> 0]

RunInit ==
    /\ cfg \in [ResponseFormat : ResponseFormats,
                PrintSampleRequest : BOOLEAN,
                RequestFile : RequestFiles]
    /\ method \in [ClientStream : BOOLEAN, ServerStream : BOOLEAN]
    /\ body = RenderSubcommandBody(method.ClientStream, method.ServerStream)
    /\ input \in SeqsUpTo(RequestUnits, MaxUnits)
    /\ src = SourceBytes(SourceKind(cfg.RequestFile), input)
    /\ v = Zero
    /\ em = <<>>
    /\ dec = "none"
    /\ pc = "start"
    /\ ip = 0
    /\ sub = "none"
    /\ err = "nil"
    /\ conn = "none"
    /\ file = "none"
    /\ cnt = ZeroCnt
    /\ sent = <<>>
    /\ fed = <<>>
    /\ recvd = <<>>
    /\ resp = [reply |-> ""]
    /\ lastRecv = "none"
    /\ lastOp = [op |-> "none", err |-> "nil"]
    /\ out = <<>>
    /\ outcome = "running"

\* the position a statement is entered at
EntrySub(stmt) ==
    IF stmt = "SendLoop" THEN "decode"
    ELSE IF stmt = "RecvLoop" THEN "recv"
    ELSE "none"

Stmt == IF pc = "fn" /\ ip \in 1..Len(body) THEN body[ip] ELSE "none"

\* `return err` out of the body or out of _RoundTrip
Return(e) ==
    /\ pc' = "return"
    /\ err' = e
    /\ sub' = "none"
    /\ ip' = ip

\* fall through to the next statement of the body
NextStmt ==
    /\ pc' = pc
    /\ err' = err
    /\ ip' = ip + 1
    /\ sub' = EntrySub(body[ip + 1])

\* a sample shortcut that is skipped when a request file is named
SampleShortcutWithoutFile(c) == c.PrintSampleRequest /\ c.RequestFile = <<>>

\* if cfg.PrintSampleRequest { return em.NewEncoder(os.Stdout).Encode(sample) }
SampleShortcut(c) == c.PrintSampleRequest

\* _RoundTrip up to the dial: the encoder maker, the sample shortcut and the
\* request decoder
RoundTripEnter ==
    /\ UNCHANGED <<codecVars, genVars, confVars, bankVars>>
    /\ pc = "start"
    /\ LET fmt == IF cfg.ResponseFormat = <<>> THEN Kjson ELSE cfg.ResponseFormat
       IN
       IF fmt \notin DOMAIN DefaultEncoders
         THEN /\ Return("format")
              /\ lastOp' = [op |-> "format", err |-> "format"]
              /\ UNCHANGED <<em, dec, file, out, cnt>>
       ELSE IF SampleShortcut(cfg)
         THEN /\ em' = fmt
              /\ cnt' = [cnt EXCEPT !.encodes = @ + 1]
              /\ \E ok \in BOOLEAN :
                    IF ok THEN /\ out' = Append(out, v)
                               /\ lastOp' = [op |-> "encode", err |-> "nil"]
                               /\ Return("nil")
                    ELSE /\ out' = out
                         /\ lastOp' = [op |-> "encode", err |-> "encode"]
                         /\ Return("encode")
              /\ UNCHANGED <<dec, file>>
       ELSE IF cfg.RequestFile = <<>> \/ cfg.RequestFile = <<"-">>
         THEN /\ em' = fmt
              /\ dec' = DefaultDecoders[Kjson]
              /\ pc' = "dial"
              /\ lastOp' = [op |-> "stdin", err |-> "nil"]
              /\ UNCHANGED <<file, out, cnt, err, sub, ip>>
       ELSE \E opened \in BOOLEAN :
              IF ~opened
                THEN /\ em' = fmt
                     /\ cnt' = [cnt EXCEPT !.opens = @ + 1]
                     /\ lastOp' = [op |-> "open", err |-> "open"]
                     /\ Return("open")
                     /\ UNCHANGED <<dec, file, out>>
              ELSE IF RequestExt(cfg.RequestFile) \notin DOMAIN DefaultDecoders
                THEN /\ em' = fmt
                     /\ file' = "open"
                     /\ cnt' = [cnt EXCEPT !.opens = @ + 1]
                     /\ lastOp' = [op |-> "ext", err |-> "ext"]
                     /\ Return("ext")
                     /\ UNCHANGED <<dec, out>>
              ELSE /\ em' = fmt
                   /\ file' = "open"
                   /\ cnt' = [cnt EXCEPT !.opens = @ + 1]
                   /\ lastOp' = [op |-> "ext", err |-> "nil"]
                   /\ dec' = DefaultDecoders[RequestExt(cfg.RequestFile)]
                   /\ pc' = "dial"
                   /\ UNCHANGED <<out, err, sub, ip>>
    /\ UNCHANGED <<cfg, method, body, input, src, v, conn, sent, fed, recvd,
                   resp, lastRecv, outcome>>

\* conn, client, err := _DialX(); defer conn.Close(); fn(client, d, encoder)
Dial ==
    /\ UNCHANGED <<codecVars, genVars, confVars, bankVars>>
    /\ pc = "dial"
    /\ cnt' = [cnt EXCEPT !.dials = @ + 1]
    /\ \E ok \in BOOLEAN :
          /\ lastOp' = [op |-> "dial", err |-> IF ok THEN "nil" ELSE "dial"]
          /\ IF ok
               THEN /\ conn' = "open"
                    /\ pc' = "fn"
                    /\ ip' = 1
                    /\ sub' = EntrySub(body[1])
                    /\ err' = err
               ELSE /\ conn' = conn
                    /\ Return("dial")
    /\ UNCHANGED <<cfg, method, body, input, src, v, em, dec, file, sent, fed,
                   recvd, resp, lastRecv, out, outcome>>

\* stream, err := cli.M(context.Background())
OpenStream ==
    /\ UNCHANGED <<codecVars, genVars, confVars, bankVars>>
    /\ Stmt = "OpenStream"
    /\ cnt' = [cnt EXCEPT !.calls = @ + 1]
    /\ \E ok \in BOOLEAN :
          /\ lastOp' = [op |-> "call", err |-> IF ok THEN "nil" ELSE "rpc"]
          /\ IF ok THEN NextStmt ELSE Return("rpc")
    /\ UNCHANGED <<cfg, method, body, input, src, v, em, dec, conn, file, sent,
                   fed, recvd, resp, lastRecv, out, outcome>>

\* a send loop that takes any error of Decode for the end of the input
SendLoopBreaksOnAnyError(e) == e # "nil"

\* if err == io.EOF { stream.CloseSend(); break } of the send loop
SendLoopBreaks(e) == e = "EOF"

\* err = in.Decode(&v) at the head of the send loop
SendLoopDecode ==
    /\ UNCHANGED <<codecVars, genVars, confVars, bankVars>>
    /\ Stmt = "SendLoop"
    /\ sub = "decode"
    /\ LET r == Decode(dec, src, v)
       IN /\ src' = r.src
          /\ v' = r.v
          /\ lastOp' = [op |-> "loopdecode", err |-> r.err]
          /\ IF SendLoopBreaks(r.err)
               THEN /\ cnt' = [cnt EXCEPT !.reads = @ + 1, !.closeSends = @ + 1]
                    /\ fed' = fed
                    /\ NextStmt
             ELSE IF r.err # "nil"
               THEN /\ cnt' = [cnt EXCEPT !.reads = @ + 1]
                    /\ fed' = fed
                    /\ Return(r.err)
             ELSE /\ cnt' = [cnt EXCEPT !.reads = @ + 1]
                  /\ fed' = Append(fed, r.v)
                  /\ sub' = "send"
                  /\ UNCHANGED <<pc, ip, err>>
    /\ UNCHANGED <<cfg, method, body, input, em, dec, conn, file, sent, recvd,
                   resp, lastRecv, out, outcome>>

\* err = stream.Send(&v) in the send loop
SendLoopSend ==
    /\ UNCHANGED <<codecVars, genVars, confVars, bankVars>>
    /\ Stmt = "SendLoop"
    /\ sub = "send"
    /\ Len(sent) < MaxSends
    /\ cnt' = [cnt EXCEPT !.sends = @ + 1]
    /\ \E ok \in BOOLEAN :
          /\ lastOp' = [op |-> "send", err |-> IF ok THEN "nil" ELSE "rpc"]
          /\ IF ok
               THEN /\ sent' = Append(sent, v)
                    /\ sub' = "decode"
                    /\ UNCHANGED <<pc, ip, err>>
               ELSE /\ sent' = sent
                    /\ Return("rpc")
    /\ UNCHANGED <<cfg, method, body, input, src, v, em, dec, conn, file,
                   fed, recvd, resp, lastRecv, out, outcome>>

\* err := in.Decode(&v); if err != nil { return err }
DecodeOne ==
    /\ UNCHANGED <<codecVars, genVars, confVars, bankVars>>
    /\ Stmt = "DecodeOne"
    /\ LET r == Decode(dec, src, v)
       IN /\ src' = r.src
          /\ v' = r.v
          /\ cnt' = [cnt EXCEPT !.reads = @ + 1]
          /\ lastOp' = [op |-> "decode", err |-> r.err]
          /\ IF r.err # "nil"
               THEN fed' = fed /\ Return(r.err)
               ELSE fed' = Append(fed, r.v) /\ NextStmt
    /\ UNCHANGED <<cfg, method, body, input, em, dec, conn, file, sent, recvd,
                   resp, lastRecv, out, outcome>>

\* stream, err := cli.M(context.Background(), &v)
CallStream ==
    /\ UNCHANGED <<codecVars, genVars, confVars, bankVars>>
    /\ Stmt = "CallStream"
    /\ cnt' = [cnt EXCEPT !.calls = @ + 1]
    /\ \E ok \in BOOLEAN :
          /\ lastOp' = [op |-> "call", err |-> IF ok THEN "nil" ELSE "rpc"]
          /\ IF ok THEN sent' = Append(sent, v) /\ NextStmt
             ELSE sent' = sent /\ Return("rpc")
    /\ UNCHANGED <<cfg, method, body, input, src, v, em, dec, conn, file, fed,
                   recvd, resp, lastRecv, out, outcome>>

\* resp, err := cli.M(context.Background(), &v)
CallUnary ==
    /\ UNCHANGED <<codecVars, genVars, confVars, bankVars>>
    /\ Stmt = "CallUnary"
    /\ cnt' = [cnt EXCEPT !.calls = @ + 1]
    /\ \/ \E r \in ResponseUnits :
             /\ sent' = Append(sent, v)
             /\ resp' = r
             /\ recvd' = Append(recvd, r)
             /\ lastOp' = [op |-> "call", err |-> "nil"]
             /\ NextStmt
       \/ /\ UNCHANGED <<sent, resp, recvd>>
          /\ lastOp' = [op |-> "call", err |-> "rpc"]
          /\ Return("rpc")
    /\ UNCHANGED <<cfg, method, body, input, src, v, em, dec, conn, file, fed,
                   lastRecv, out, outcome>>

\* a receive loop that takes any error of Recv for completion
RecvLoopBreaksOnAnyError(e) == e # "nil"

\* if err == io.EOF { break } of the receive loop
RecvLoopBreaks(e) == e = "EOF"

\* v, err := stream.Recv() at the head of the receive loop: the server hands
\* over a response unit, completes the call (io.EOF) or the call fails
RecvLoopRecv ==
    /\ UNCHANGED <<codecVars, genVars, confVars, bankVars>>
    /\ Stmt = "RecvLoop"
    /\ sub = "recv"
    /\ cnt' = [cnt EXCEPT !.recvs = @ + 1]
    /\ \E e \in {"nil", "EOF", "rpc"}, r \in ResponseUnits :
          /\ e = "nil" => Len(recvd) < MaxResp
          /\ e # "nil" => r = CHOOSE x \in ResponseUnits : TRUE
          /\ lastRecv' = e
          /\ lastOp' = [op |-> "recv", err |-> e]
          /\ IF RecvLoopBreaks(e)
               THEN /\ UNCHANGED <<recvd, resp>>
                    /\ NextStmt
             ELSE IF e # "nil"
               THEN /\ UNCHANGED <<recvd, resp>>
                    /\ Return(e)
             ELSE /\ recvd' = Append(recvd, r)
                  /\ resp' = r
                  /\ sub' = "encode"
                  /\ UNCHANGED <<pc, ip, err>>
    /\ UNCHANGED <<cfg, method, body, input, src, v, em, dec, conn, file, sent,
                   fed, out, outcome>>

\* err = out.Encode(v) in the receive loop
RecvLoopEncode ==
    /\ UNCHANGED <<codecVars, genVars, confVars, bankVars>>
    /\ Stmt = "RecvLoop"
    /\ sub = "encode"
    /\ cnt' = [cnt EXCEPT !.encodes = @ + 1]
    /\ \E ok \in BOOLEAN :
          /\ lastOp' = [op |-> "encode", err |-> IF ok THEN "nil" ELSE "encode"]
          /\ IF ok
               THEN /\ out' = Append(out, resp)
                    /\ sub' = "recv"
                    /\ UNCHANGED <<pc, ip, err>>
               ELSE /\ out' = out
                    /\ Return("encode")
    /\ UNCHANGED <<cfg, method, body, input, src, v, em, dec, conn, file, sent,
                   fed, recvd, resp, lastRecv, outcome>>

\* return nil after the receive loop
ReturnNil ==
    /\ UNCHANGED <<codecVars, genVars, confVars, bankVars>>
    /\ Stmt = "ReturnNil"
    /\ Return("nil")
    /\ UNCHANGED <<cfg, method, body, input, src, v, em, dec, conn, file, cnt,
                   sent, fed, recvd, resp, lastRecv, lastOp, out, outcome>>

\* resp, err := stream.CloseAndRecv()
CloseAndRecv ==
    /\ UNCHANGED <<codecVars, genVars, confVars, bankVars>>
    /\ Stmt = "CloseAndRecv"
    /\ cnt' = [cnt EXCEPT !.closeAndRecvs = @ + 1]
    /\ \/ \E r \in ResponseUnits :
             /\ resp' = r
             /\ recvd' = Append(recvd, r)
             /\ lastOp' = [op |-> "closeandrecv", err |-> "nil"]
             /\ NextStmt
       \/ /\ UNCHANGED <<resp, recvd>>
          /\ lastOp' = [op |-> "closeandrecv", err |-> "rpc"]
          /\ Return("rpc")
    /\ UNCHANGED <<cfg, method, body, input, src, v, em, dec, conn, file, sent,
                   fed, lastRecv, out, outcome>>

\* return out.Encode(resp)
EncodeResp ==
    /\ UNCHANGED <<codecVars, genVars, confVars, bankVars>>
    /\ Stmt = "EncodeResp"
    /\ cnt' = [cnt EXCEPT !.encodes = @ + 1]
    /\ \E ok \in BOOLEAN :
          /\ lastOp' = [op |-> "encode", err |-> IF ok THEN "nil" ELSE "encode"]
          /\ IF ok THEN out' = Append(out, resp) /\ Return("nil")
             ELSE out' = out /\ Return("encode")
    /\ UNCHANGED <<cfg, method, body, input, src, v, em, dec, conn, file, sent,
                   fed, recvd, resp, lastRecv, outcome>>

\* a connection that is closed on the successful path only
ConnCloseOnSuccess(c, e) == IF c = "open" /\ e = "nil" THEN "closed" ELSE c

\* what the deferred conn.Close() of _RoundTrip leaves of the connection
DeferredConnClose(c, e) == IF c = "open" THEN "closed" ELSE c

\* what the deferred f.Close() of _RoundTrip leaves of the request file
DeferredFileClose(f, e) == IF f = "open" THEN "closed" ELSE f

\* _RoundTrip returns: its deferred calls run (conn.Close, then f.Close)
RoundTripReturn ==
    /\ UNCHANGED <<codecVars, genVars, confVars, bankVars>>
    /\ pc = "return"
    /\ conn' = DeferredConnClose(conn, err)
    /\ file' = DeferredFileClose(file, err)
    /\ pc' = "check"
    /\ UNCHANGED <<cfg, method, body, input, src, v, em, dec, ip, sub, err,
                   cnt, sent, fed, recvd, resp, lastRecv, lastOp, out, outcome>>

\* a Run that takes the end of the input for success
LogFatalExceptEOF(e) == e \notin {"nil", "EOF"}

\* if err != nil { log.Fatal(err) }
LogFatal(e) == e # "nil"

\* if err != nil { log.Fatal(err) }; Run returns otherwise
RunExit ==
    /\ UNCHANGED <<codecVars, genVars, confVars, bankVars>>
    /\ pc = "check"
    /\ outcome' = IF LogFatal(err) THEN "fatal" ELSE "ok"
    /\ pc' = "done"
    /\ UNCHANGED <<cfg, method, body, input, src, v, em, dec, ip, sub, err,
                   conn, file, cnt, sent, fed, recvd, resp, lastRecv, lastOp,
                   out>>

RunNext ==
    \/ RoundTripEnter
    \/ Dial
    \/ OpenStream
    \/ SendLoopDecode
    \/ SendLoopSend
    \/ DecodeOne
    \/ CallStream
    \/ CallUnary
    \/ RecvLoopRecv
    \/ RecvLoopEncode
    \/ ReturnNil
    \/ CloseAndRecv
    \/ EncodeResp
    \/ RoundTripReturn
    \/ RunExit

\* the initial states of SpecRun: the other machines stay idle
RunStart == RunInit /\ CodecIdle /\ GenIdle /\ ConfIdle /\ BankIdle

SpecRun == RunStart /\ [][RunNext]_vars


(***************************************************************************)
(* Properties of a command invocation.                                     *)
(***************************************************************************)
ClientStreamShape == method.ClientStream /\ ~method.ServerStream
ServerStreamShape == ~method.ClientStream /\ method.ServerStream
BidiShape == method.ClientStream /\ method.ServerStream
StreamingShape == method.ClientStream \/ method.ServerStream

\* the invocation is a round trip, not the printing of a sample request
RoundTrip == ~cfg.PrintSampleRequest

\* the request units read from the source so far
Consumed == SubSeq(input, 1, Len(input) - RecordsLeft(src))

IsPrefix(s, t) == Len(s) <= Len(t) /\ s = SubSeq(t, 1, Len(s))

\* C2: a client-streaming command fed N request units sends exactly N times
\* (never more than N), signals end-of-input only after the N-th send, sends
\* nothing after that, and then performs one close-and-receive and encodes
\* one response.
C2_ClientStreamSendsThenCloses ==
    ClientStreamShape /\ RoundTrip =>
        /\ Len(sent) <= Len(input)
        /\ cnt.closeSends <= 1
        /\ cnt.closeSends = 1 => (Len(sent) = Len(input) /\ Stmt # "SendLoop")
        /\ cnt.closeAndRecvs <= 1
        /\ cnt.closeAndRecvs = 1 => cnt.closeSends = 1
        /\ Len(out) <= 1
        /\ outcome = "ok" =>
              (Len(sent) = Len(input) /\ cnt.closeAndRecvs = 1 /\ Len(out) = 1)

\* C2 holds of every decoder that reports io.EOF on an exhausted source
C2_HoldsForStreamDecoders ==
    dec # "yaml" => C2_ClientStreamSendsThenCloses

\* C3: a server-streaming command decodes one request unit, invokes the call
\* once with it, and leaves its receive loop only when Recv reports
\* completion (io.EOF), returning nil, or with an error that is returned; an
\* RPC error of Recv is never taken for completion, and the state of the
\* request source plays no part.
C3_ServerStreamRecvLoop ==
    [][ServerStreamShape /\ RoundTrip =>
          /\ cnt'.reads <= 1 /\ cnt'.calls <= 1
          /\ cnt'.calls = 1 => (cnt'.reads = 1 /\ fed' = <<v'>>)
          /\ sent' \in {<<>>, <<v'>>}
          /\ cnt'.recvs > 0 => (cnt'.calls = 1 /\ sent' = <<v'>>)
          /\ (Stmt = "RecvLoop" /\ Stmt' # "RecvLoop") =>
                \/ lastRecv' = "EOF" /\ Stmt' = "ReturnNil"
                \/ pc' = "return" /\ err' # "nil"
          /\ lastRecv' = "rpc" => (err' = "rpc" /\ outcome' # "ok")
          /\ outcome' = "ok" => lastRecv' = "EOF"]_vars

\* a server stream that outlives the request source: responses are received
\* after the source is exhausted, and the call then completes
C3_Witness ==
    /\ ServerStreamShape
    /\ input # <<>>
    /\ RecordsLeft(src) = 0
    /\ Len(recvd) = 2
    /\ lastRecv = "EOF"
    /\ outcome = "ok"

\* C4: in a bidirectional command every send precedes every receive: no
\* request unit is sent once a receive has been attempted, and a receive is
\* attempted only after the source is exhausted, end-of-input was signalled
\* and every request unit was sent.
C4_BidiSendsBeforeReceives ==
    [][BidiShape /\ RoundTrip =>
          /\ Len(sent') > Len(sent) => cnt.recvs = 0
          /\ cnt'.recvs > cnt.recvs =>
                /\ RecordsLeft(src) = 0
                /\ cnt.closeSends = 1
                /\ Len(sent) = Len(input)
                /\ sent = fed]_vars

C4_Witness ==
    /\ BidiShape
    /\ Len(sent) = 2
    /\ Len(recvd) >= 1
    /\ cnt.recvs >= 2

\* C5: in every streaming shape the request units sent are the units decoded
\* from the request source, in order, each once; the response units written
\* are the units received, in order, each once.
C5_SentIsDecodedOutIsReceived ==
    StreamingShape /\ RoundTrip =>
        /\ IsPrefix(sent, fed)
        /\ Len(fed) <= Len(sent) + 1
        /\ Len(fed) <= Len(Consumed)
        /\ \A i \in 1..Len(fed) :
              i <= Len(Consumed) =>
                 fed[i] = Merge(IF i = 1 THEN Zero ELSE fed[i - 1], Consumed[i])
        /\ IsPrefix(out, recvd)
        /\ Len(recvd) <= Len(out) + 1
        /\ pc = "done" /\ outcome = "ok" => (sent = fed /\ out = recvd)

\* C5 holds of every decoder that reports io.EOF on an exhausted source
C5_HoldsForStreamDecoders ==
    dec # "yaml" => C5_SentIsDecodedOutIsReceived

SampleFormatRegistered ==
    cfg.ResponseFormat = <<>> \/ cfg.ResponseFormat \in DOMAIN DefaultEncoders

C7_ConnClosedOnEveryExit ==
    /\ pc \in {"check", "done"} => conn # "open"
    /\ pc \in {"check", "done"} /\ ip >= 1 => conn = "closed"
    /\ outcome # "running" => conn # "open"
    /\ conn = "open" => pc \in {"fn", "return"}

\* a fatal exit after an RPC failure, the connection closed
C7_Witness ==
    /\ outcome = "fatal"
    /\ err = "rpc"
    /\ cnt.recvs >= 1
    /\ conn = "closed"

\* a step of the invocation has failed: the last operation returned an
\* error other than the end of input that ends a loop
StepFailed ==
    /\ lastOp.err # "nil"
    /\ ~(lastOp.err = "EOF" /\ lastOp.op \in {"loopdecode", "recv"})

ExpectedDecoder ==
    <<>> :> "json" @@
    <<"-">> :> "json" @@
    <<"r", ".", "j", "s", "o", "n">> :> "json" @@
    <<"r", ".", "y", "a", "m", "l">> :> "yaml" @@
    <<"r", ".", "x", "m", "l">> :> "xml" @@
    <<"r", ".", "t", "x", "t">> :> "none" @@
    <<"r", "e", "q">> :> "none" @@
    <<"d", ".", "x", "m", "l", "/", "r">> :> "none" @@
    <<"r", ".", "y", "a", "m", "l", ".", "j", "s", "o", "n">> :> "json"

\* C16: the request decoder depends on the request source alone: json over
\* standard input for an empty path and for "-", the decoder of the
\* extension for a path that has one, and an error before any dial for a
\* path whose extension has no decoder.
C16_DecoderChosenFromRequestSource ==
    (pc # "start" /\ RoundTrip /\ SampleFormatRegistered) =>
        LET want == ExpectedDecoder[cfg.RequestFile]
        IN IF cfg.RequestFile \in {<<>>, <<"-">>}
             THEN dec = "json" /\ file = "none" /\ cnt.opens = 0
           ELSE IF want # "none"
             THEN \/ dec = want /\ file # "none"
                  \/ dec = "none" /\ err = "open" /\ cnt.dials = 0
           ELSE /\ dec = "none"
                /\ err \in {"open", "ext"}
                /\ cnt.dials = 0
                /\ pc = "done" => outcome = "fatal"

\* the last extension of a path with two selects the decoder
C16_Witness ==
    /\ cfg.RequestFile = <<"r", ".", "y", "a", "m", "l", ".", "j", "s", "o", "n">>
    /\ dec = "json"
    /\ file = "open"
    /\ cnt.dials = 1

\* C17: in the send loop, a Decode that begins on an exhausted request
\* source ends the loop, whichever decoder was selected.
C17_SendLoopEndsAtEndOfInput ==
    [][(RoundTrip /\ Stmt = "SendLoop" /\ sub = "decode"
          /\ RecordsLeft(src) = 0 /\ cnt'.reads = cnt.reads + 1)
       => pc' = "return" \/ ip' = ip + 1]_vars

\* the same for the decoders that read the source record by record
C17_HoldsForStreamDecoders ==
    [][(RoundTrip /\ Stmt = "SendLoop" /\ sub = "decode" /\ dec # "yaml"
          /\ RecordsLeft(src) = 0 /\ cnt'.reads = cnt.reads + 1)
       => ip' = ip + 1 /\ lastOp'.err = "EOF"]_vars

\* the value a record gives when it is decoded into a zero request
RecordAlone(u) == Merge(Zero, u)

\* C22: in the client-streaming and the bidirectional shape the k-th request
\* unit sent is the k-th record of the request source decoded on its own: a
\* field the record leaves out is sent with its zero value, never with the
\* value an earlier record gave it.
C22_SentIsRecordAlone ==
    method.ClientStream /\ RoundTrip =>
        \A k \in 1..Len(sent) :
           /\ k <= Len(input)
           /\ sent[k] = RecordAlone(input[k])

\* with the json and the xml decoder every field the k-th record names is
\* sent with the value the record gives it
C22_NamedFieldsAreSentAsDecoded ==
    method.ClientStream /\ RoundTrip /\ dec # "yaml" =>
        \A k \in 1..Len(sent) :
           /\ k <= Len(input)
           /\ \A f \in Fields :
                 input[k][f] # Absent => sent[k][f] = input[k][f]


(***************************************************************************)
(* SpecConf: the configuration of the commands of one service is loaded    *)
(* from the environment when the program starts, each subcommand binds     *)
(* its flags to it, and the command line of the invoked one is parsed.     *)
(***************************************************************************)
\* most environment variables of the surface that are set
MaxEnvSet == 2
\* most flags of the surface given on the command line
MaxFlags == 1

\* what a variable of an option of the type may hold: a value the type
\* parses and, for the types that parse, one it does not
EnvValues(type) ==
    IF type = "bool" THEN {"1", "maybe"}
    ELSE IF type = "duration" THEN {"5s", "soon"}
    ELSE {"E"}

\* what a flag of the type may be given (the command is not run when the
\* flag set fails to parse)
FlagValues(type) ==
    IF type = "bool" THEN {"true"}
    ELSE IF type = "duration" THEN {"1s"}
    ELSE {"F"}

\* envconfig's processField: the value parsed for a field of the type
ProcessField(value, type) ==
    IF type = "bool"
      THEN IF value \in {"1", "true"} THEN [ok |-> TRUE, val |-> "true"]
           ELSE IF value \in {"0", "false"} THEN [ok |-> TRUE, val |-> "false"]
           ELSE [ok |-> FALSE, val |-> ""]
    ELSE IF type = "duration"
      THEN IF value \in {"10s", "5s", "1s", "0s"} THEN [ok |-> TRUE, val |-> value]
           ELSE [ok |-> FALSE, val |-> ""]
    ELSE [ok |-> TRUE, val |-> value]

\* envconfig.Process("", c) from the i-th field on: the variable of the
\* field, else its default tag, parsed into the field; the first value
\* that does not parse ends the processing with an error
RECURSIVE Process(_, _, _)
Process(i, c, e) ==
    IF i > Len(OptionOrder) THEN [conf |-> c, err |-> "nil"]
    ELSE LET o == OptionOrder[i]
             ok == e[o] # "unset"
             def == DefaultTag[o]
             value == IF def # "" /\ ~ok THEN def ELSE e[o]
         IN IF ~ok /\ def = "" THEN Process(i + 1, c, e)
            ELSE LET r == ProcessField(value, OptionType[o])
                 IN IF r.ok THEN Process(i + 1, [c EXCEPT ![o] = r.val], e)
                    ELSE [conf |-> c, err |-> "parse"]

\* the program starts: some variables of the surface set, some flags given
ConfInit ==
    /\ \E S \in SUBSET Options :
          /\ Cardinality(S) <= MaxEnvSet
          /\ \E val \in [S -> {"1", "maybe", "5s", "soon", "E"}] :
                /\ \A o \in S : val[o] \in EnvValues(OptionType[o])
                /\ env = [o \in Options |-> IF o \in S THEN val[o] ELSE "unset"]
    /\ \E G \in SUBSET Options :
          /\ Cardinality(G) <= MaxFlags
          /\ \E val \in [G -> {"true", "1s", "F"}] :
                /\ \A o \in G : val[o] \in FlagValues(OptionType[o])
                /\ flags = [o \in Options |-> IF o \in G THEN val[o] ELSE "notgiven"]
    /\ conf = [o \in Options |-> ZeroValue(OptionType[o])]
    /\ confPc = "start"
    /\ procErr = "nil"

\* var _DefaultXClientCommandConfig = _NewXClientCommandConfig()
NewClientCommandConfig ==
    /\ confPc = "start"
    /\ LET r == Process(1, conf, env)
       IN /\ conf' = r.conf
          /\ procErr' = r.err
    /\ confPc' = "loaded"
    /\ UNCHANGED <<env, flags>>
    /\ UNCHANGED <<runVars, codecVars, genVars, bankVars>>

\* init() of a subcommand: AddFlags binds each flag to its field with the
\* value of the field for the default of the flag
AddFlags ==
    /\ confPc = "loaded"
    /\ conf' = [o \in Options |-> conf[o]]
    /\ confPc' = "flags"
    /\ UNCHANGED <<env, flags, procErr>>
    /\ UNCHANGED <<runVars, codecVars, genVars, bankVars>>

\* the command line of the invoked subcommand is parsed: a flag that is
\* given stores its value in the field it is bound to
ParseFlags ==
    /\ confPc = "flags"
    /\ conf' = [o \in Options |->
                  IF flags[o] # "notgiven" THEN flags[o] ELSE conf[o]]
    /\ confPc' = "parsed"
    /\ UNCHANGED <<env, flags, procErr>>
    /\ UNCHANGED <<runVars, codecVars, genVars, bankVars>>

ConfNext ==
    \/ NewClientCommandConfig
    \/ AddFlags
    \/ ParseFlags

\* the initial states of SpecConf: the other machines stay idle
ConfStart == ConfInit /\ RunIdle /\ CodecIdle /\ GenIdle /\ BankIdle

SpecConf == ConfStart /\ [][ConfNext]_vars

\* the built-in default of each option: localhost:8080, json, 10s, Bearer,
\* and the zero value of the type for the others
BuiltinDefault ==
    "ServerAddr" :> "localhost:8080" @@
    "RequestFile" :> "" @@
    "PrintSampleRequest" :> "false" @@
    "ResponseFormat" :> "json" @@
    "Timeout" :> "10s" @@
    "TLS" :> "false" @@
    "ServerName" :> "" @@
    "InsecureSkipVerify" :> "false" @@
    "CACertFile" :> "" @@
    "CertFile" :> "" @@
    "KeyFile" :> "" @@
    "AuthToken" :> "" @@
    "AuthTokenType" :> "Bearer" @@
    "JWTKey" :> "" @@
    "JWTKeyFile" :> ""

\* the value a well-formed variable stands for
EnvMeaning(value) == IF value = "1" THEN "true" ELSE value

WellFormed(value) == value \notin {"maybe", "soon"}

\* flag over environment over built-in default
Effective(o) ==
    IF flags[o] # "notgiven" THEN flags[o]
    ELSE IF env[o] # "unset" THEN EnvMeaning(env[o])
    ELSE BuiltinDefault[o]

\* C14: once the command line is parsed, every option holds the value of
\* its flag when the flag is given, else the value of its environment
\* variable when that is set, else its built-in default.
C14_FlagOverEnvOverDefault ==
    confPc = "parsed" =>
        \A o \in Options :
            (env[o] = "unset" \/ WellFormed(env[o])) => conf[o] = Effective(o)

\* the same when every variable that is set holds a value of its type
C14_HoldsForWellFormedEnvironment ==
    (confPc = "parsed" /\ \A o \in Options : WellFormed(env[o])) =>
        /\ procErr = "nil"
        /\ \A o \in Options : conf[o] = Effective(o)


(***************************************************************************)
(* SpecCodec: a value is encoded into a sink by the encoder registered     *)
(* under one key; the bytes are decoded by the decoder registered under a  *)
(* key.  Decode may also be called on the sink before anything was         *)
(* written, and again after everything was read.                           *)
(***************************************************************************)
\* most Decode calls on one source
MaxDecodes == 3

CodecValues == [key : {"", "a", "b"}, value : {"", "x", "y"}]

\* nothing but white space is left to read
Exhausted(buf) == SkipToks(buf, {"ws", "nl"}) = <<>>

CodecInit ==
    /\ cFormat \in DOMAIN DefaultEncoders
    /\ cDecKey \in {cFormat} \cup (IF cFormat = Kprettyjson THEN {Kjson} ELSE {})
    /\ cValue \in CodecValues
    /\ cBuf = <<>>
    /\ cTarget = Zero
    /\ cErr = "none"
    /\ cExhausted = FALSE
    /\ cPhase = "init"
    /\ cDecodes = 0

\* DefaultEncoders[cFormat].NewEncoder(w).Encode(cValue)
CodecEncode ==
    /\ cPhase = "init"
    /\ cBuf' = cBuf \o Encode(DefaultEncoders[cFormat], cValue)
    /\ cPhase' = "encoded"
    /\ UNCHANGED <<cFormat, cDecKey, cValue, cTarget, cErr, cExhausted, cDecodes>>
    /\ UNCHANGED <<runVars, genVars, confVars, bankVars>>

\* dm, ok := DefaultDecoders[cDecKey]; dm.NewDecoder(r).Decode(&cTarget)
CodecDecode ==
    /\ cPhase \in {"init", "encoded", "decoded", "drained"}
    /\ cDecodes < MaxDecodes
    /\ cDecodes' = cDecodes + 1
    /\ cPhase' = IF cPhase = "init" THEN "init"
                 ELSE IF cPhase = "encoded" THEN "decoded" ELSE "drained"
    /\ cExhausted' = Exhausted(cBuf)
    /\ IF cDecKey \notin DOMAIN DefaultDecoders
         THEN /\ cErr' = "nodecoder"
              /\ UNCHANGED <<cBuf, cTarget>>
         ELSE LET r == Decode(DefaultDecoders[cDecKey], cBuf, cTarget)
              IN /\ cErr' = r.err
                 /\ cTarget' = r.v
                 /\ cBuf' = r.src
    /\ UNCHANGED <<cFormat, cDecKey, cValue>>
    /\ UNCHANGED <<runVars, genVars, confVars, bankVars>>

CodecNext ==
    \/ CodecEncode
    \/ CodecDecode

\* the initial states of SpecCodec: the other machines stay idle
CodecStart == CodecInit /\ RunIdle /\ GenIdle /\ ConfIdle /\ BankIdle

SpecCodec == CodecStart /\ [][CodecNext]_vars

\* C8 as claimed: for every encoder key X, the bytes of the encoder under X,
\* decoded by the decoder registered under X, give back the value.
C8_RoundTripUnderSameKey ==
    (cPhase = "decoded" /\ cDecKey = cFormat) =>
        (cDecKey \in DOMAIN DefaultDecoders /\ cErr = "nil" /\ cTarget = cValue)

\* C8 amended: for every key X that has both an encoder and a decoder (json,
\* xml, yaml) the decoder under X gives back the value the encoder under X
\* wrote; prettyjson has no decoder of its own and its bytes give back the
\* value through the json decoder.
C8_RoundTrip ==
    cPhase = "decoded" =>
        /\ cDecKey \in DOMAIN DefaultDecoders =>
              (cErr = "nil" /\ cTarget = cValue)
        /\ cDecKey \notin DOMAIN DefaultDecoders =>
              (cFormat = Kprettyjson /\ cDecKey = Kprettyjson /\ cErr = "nodecoder")
        /\ DOMAIN DefaultEncoders \ DOMAIN DefaultDecoders = {Kprettyjson}

\* a value with a zero field and a non-zero field, back from json
C8_Witness ==
    /\ cPhase = "decoded"
    /\ cFormat = Kjson
    /\ cDecKey = Kjson
    /\ cValue = [key |-> "a", value |-> ""]
    /\ cTarget = cValue
    /\ cErr = "nil"

\* C9: a Decode that begins on an exhausted source returns io.EOF, whatever
\* the decoder.
C9_ExhaustedSourceIsEOF ==
    (cDecodes > 0 /\ cExhausted /\ cDecKey \in DOMAIN DefaultDecoders) =>
        cErr = "EOF"

\* C9 holds of the json and the xml decoder
C9_HoldsForStreamDecoders ==
    (cDecodes > 0 /\ cExhausted /\ cDecKey \in {Kjson, Kxml}) => cErr = "EOF"


(***************************************************************************)
(* The plugin.                                                             *)
(*   SpecInit  two generator processes are handed the same request; each   *)
(*             runs client.Init once, its range over the key table taking  *)
(*             an order of its own                                         *)
(*   SpecGen   one generator process, its plugin initialised, generates    *)
(*             the subcommands of the file                                 *)
(***************************************************************************)
\* most methods of the generated file
MaxMethods == 1

Procs == {1, 2}

\* the keys of importPkgsByName, as the table lists them
ImportPkgKeys ==
    << <<"c", "o", "b", "r", "a">>,
       <<"c", "o", "n", "t", "e", "x", "t">>,
       <<"c", "r", "e", "d", "e", "n", "t", "i", "a", "l", "s">>,
       <<"e", "n", "v", "c", "o", "n", "f", "i", "g">>,
       <<"f", "i", "l", "e", "p", "a", "t", "h">>,
       <<"g", "r", "p", "c">>,
       <<"i", "o">>,
       <<"i", "o", "c", "o", "d", "e", "c">>,
       <<"i", "o", "u", "t", "i", "l">>,
       <<"j", "s", "o", "n">>,
       <<"l", "o", "g">>,
       <<"n", "e", "t">>,
       <<"o", "a", "u", "t", "h">>,
       <<"o", "a", "u", "t", "h", "2">>,
       <<"o", "s">>,
       <<"p", "f", "l", "a", "g">>,
       <<"t", "e", "m", "p", "l", "a", "t", "e">>,
       <<"t", "i", "m", "e">>,
       <<"t", "l", "s">>,
       <<"x", "5", "0", "9">> >>

KeySet == {ImportPkgKeys[i] : i \in 1..Len(ImportPkgKeys)}

Reverse(a) == [i \in 1..Len(a) |-> a[Len(a) + 1 - i]]

Rotate(a, n) == [i \in 1..Len(a) |-> a[((i + n - 1) % Len(a)) + 1]]

\* orders `for k := range importPkgsByName` may take: Go leaves the order of
\* a map range unspecified; the model follows the table order and its
\* reverse, from every starting point
IterationOrders ==
    {Rotate(ImportPkgKeys, n) : n \in 0..(Len(ImportPkgKeys) - 1)}
    \cup {Rotate(Reverse(ImportPkgKeys), n) : n \in 0..(Len(ImportPkgKeys) - 1)}

\* generator.RegisterUniquePackageName: characters that cannot be part of
\* an identifier become underscores
BadToUnderscore(s) ==
    [i \in 1..Len(s) |->
        IF IsLower(s[i]) \/ IsUpper(s[i]) \/ IsDigit(s[i]) \/ s[i] = "_"
          THEN s[i] ELSE "_"]

\* generator.RegisterUniquePackageName: the name itself when it is free,
\* else the name followed by the first of 1, 2, 3, ... that makes it free
RECURSIVE UniqueSuffixed(_, _, _)
UniqueSuffixed(orig, i, inUse) ==
    IF (orig \o Itoa(i)) \notin inUse THEN orig \o Itoa(i)
    ELSE UniqueSuffixed(orig, i + 1, inUse)

RegisterUniquePackageName(pkg, inUse) ==
    LET orig == BadToUnderscore(pkg)
    IN IF orig \notin inUse THEN orig ELSE UniqueSuffixed(orig, 1, inUse)

\* the loop of client.Init over the keys in the order the range takes, from
\* the i-th key on: the names in use and the unique names handed out so far
RECURSIVE InitLoop(_, _, _, _)
InitLoop(order, i, inUse, handed) ==
    IF i > Len(order) THEN [inUse |-> inUse, handed |-> handed]
    ELSE LET name == RegisterUniquePackageName(order[i], inUse)
         IN InitLoop(order, i + 1, inUse \cup {name}, Append(handed, name))

\* generator.CamelCase
RECURSIVE CamelCaseFrom(_, _, _)
CamelCaseFrom(s, i, inWord) ==
    IF i > Len(s) THEN <<>>
    ELSE LET c == s[i]
         IN IF inWord /\ IsLower(c) THEN <<c>> \o CamelCaseFrom(s, i + 1, TRUE)
            ELSE IF c = "_" /\ i + 1 <= Len(s) /\ IsLower(s[i + 1])
              THEN CamelCaseFrom(s, i + 1, FALSE)
            ELSE IF IsDigit(c) THEN <<c>> \o CamelCaseFrom(s, i + 1, FALSE)
            ELSE <<ToUpper(c)>> \o CamelCaseFrom(s, i + 1, TRUE)

CamelCase(s) ==
    IF s = <<>> THEN <<>>
    ELSE IF s[1] = "_" THEN <<"X">> \o CamelCaseFrom(s, 2, FALSE)
    ELSE CamelCaseFrom(s, 1, FALSE)

\* file.PackageName(): the Go package name the generator registered for
\* the file, the first name it registers
PackageName(f) == BadToUnderscore(f.Package)

\* inputNames taking the first segment alone for the package
inputNamesFirstSegment(s) ==
    LET typ == PathFile(s, Len(s))
        typz == SplitDots(TrimDots(typ), <<>>)
        typeIdx == Len(typz)
    IN IF Len(typz) < 2
         THEN [importName |-> <<>>, inputPackage |-> <<>>, inputType |-> <<>>]
         ELSE [importName |-> typz[1] \o <<"_", "p", "b">>,
               inputPackage |-> typz[1],
               inputType |-> typz[typeIdx]]

inputNames(s) ==
    LET typ == PathFile(s, Len(s))
        typz == SplitDots(TrimDots(typ), <<>>)
        typeIdx == Len(typz)
    IN IF Len(typz) < 2
         THEN [importName |-> <<>>, inputPackage |-> <<>>, inputType |-> <<>>]
         ELSE [importName |-> Join(SubSeq(typz, 1, typeIdx - 1), <<"_">>) \o <<"_", "p", "b">>,
               inputPackage |-> Join(SubSeq(typz, 1, typeIdx - 1), <<".">>),
               inputType |-> typz[typeIdx]]

\* the data generateSubcommand executes the template with, and the body the
\* template renders for it
Subcommand(servName, f, m) ==
    LET methName == CamelCase(m.Name)
        n == inputNames(m.InputType)
        importName == IF n.inputPackage = PackageName(f) THEN <<>> ELSE n.importName
    IN [Name |-> methName,
        UseName |-> ToLower(methName),
        ServiceName |-> servName,
        FullName |-> servName \o methName,
        InputPackage |-> importName,
        InputType |-> n.inputType,
        ClientStream |-> m.ClientStream,
        ServerStream |-> m.ServerStream,
        VarType |-> (IF importName # <<>> THEN importName \o <<".">> ELSE <<>>)
                    \o n.inputType,
        Body |-> RenderSubcommandBody(m.ClientStream, m.ServerStream)]

\* generateSubcommandTemplate.Execute(&b, data): every field the template
\* names is a field of the data and a bytes.Buffer takes every write, so
\* the error is nil whatever the strings of the data are
ExecuteErr(data) == "nil"

\* names the generator may hold before the plugins are initialised, beside
\* those it always holds: the packages of the files of the request
DependencyNames ==
    { <<"o", "a", "u", "t", "h">>,
      <<"o", "a", "u", "t", "h", "1">>,
      <<"i", "o">>,
      <<"p", "b">> }

SupportNames ==
    { <<"f", "m", "t">>, <<"m", "a", "t", "h">>, <<"p", "r", "o", "t", "o">> }

FilePackages ==
    { <<"p", "b">>,
      <<"b", "a", "n", "k", ".", "v", "1">> }

MethodNames ==
    { <<"D", "e", "p", "o", "s", "i", "t">>,
      <<"m", "u", "l", "t", "i", "_", "g", "e", "t">> }

\* the dotted segments of the input types of the methods: none (an empty
\* reference), a bare type name, and types of packages of one, two and
\* three segments
TypeSegments ==
    { <<>>,
      <<<<"G", "e", "t", "R", "e", "q", "u", "e", "s", "t">>>>,
      <<<<"p", "b">>, <<"D", "e", "p", "o", "s", "i", "t", "R", "e", "q", "u", "e", "s", "t">>>>,
      <<<<"b", "a", "n", "k">>, <<"v", "1">>, <<"D", "e", "p", "o", "s", "i", "t", "R", "e", "q", "u", "e", "s", "t">>>>,
      <<<<"b", "a", "n", "k", "_", "v", "1">>, <<"D", "e", "p", "o", "s", "i", "t", "R", "e", "q", "u", "e", "s", "t">>>>,
      <<<<"c", "a", "c", "h", "e">>, <<"v", "2">>, <<"s", "u", "b">>, <<"G", "e", "t", "R", "e", "q", "u", "e", "s", "t">>>> }

\* method.GetInputType() of a type with these segments: `.pkg.Type`
DottedPath(segs) ==
    IF segs = <<>> THEN <<>> ELSE <<".">> \o Join(segs, <<".">>)

InputTypes == {DottedPath(segs) : segs \in TypeSegments}

Methods ==
    [Name : MethodNames, InputType : InputTypes,
     ClientStream : BOOLEAN, ServerStream : BOOLEAN]

ServName == <<"B", "a", "n", "k">>

\* what client.Init leaves when its range takes the given order
InitResult(order, inUse, sortedNames) ==
    LET st == InitLoop(order, 1, inUse, <<>>)
    IN [inUse |-> st.inUse,
        unique |-> [k \in KeySet |->
                       st.handed[CHOOSE i \in 1..Len(order) : order[i] = k]],
        sorted |-> SortStrings(sortedNames \o order)]

\* both processes started, the plugin of neither initialised
InitInit ==
    /\ \E deps \in SUBSET DependencyNames : preNames = SupportNames \cup deps
    /\ genFile \in [Package : FilePackages, Method : {<<>>}]
    /\ inited = [p \in Procs |-> FALSE]
    /\ pkgNamesInUse = [p \in Procs |-> preNames \cup {PackageName(genFile)}]
    /\ uniqueName = [p \in Procs |-> <<>>]
    /\ sortedImportPkgNames = [p \in Procs |-> <<>>]
    /\ emitted = <<>>
    /\ resolved = <<>>
    /\ genFailed = FALSE
    /\ imports = <<>>
    /\ importsDone = FALSE
    /\ referenceLines = <<>>
    /\ supportLines = <<>>
    /\ importLines = <<>>

\* client.Init
ClientInit(p) ==
    /\ ~inited[p]
    /\ \E order \in IterationOrders :
          \E r \in {InitResult(order, pkgNamesInUse[p], sortedImportPkgNames[p])} :
             /\ pkgNamesInUse' = [pkgNamesInUse EXCEPT ![p] = r.inUse]
             /\ uniqueName' = [uniqueName EXCEPT ![p] = r.unique]
             /\ sortedImportPkgNames' = [sortedImportPkgNames EXCEPT ![p] = r.sorted]
    /\ inited' = [inited EXCEPT ![p] = TRUE]
    /\ UNCHANGED <<preNames, genFile, emitted, resolved, genFailed, imports,
                   importsDone, referenceLines, supportLines, importLines>>
    /\ UNCHANGED <<runVars, codecVars, confVars, bankVars>>

InitNext == \E p \in Procs : ClientInit(p)

\* the initial states of SpecInit: the other machines stay idle
InitStart == InitInit /\ RunIdle /\ CodecIdle /\ ConfIdle /\ BankIdle

SpecInit == InitStart /\ [][InitNext]_vars

\* process 1 with its plugin initialised (in some order of the range), about
\* to generate the file; process 2 plays no part
GenInit ==
    /\ \E deps \in SUBSET DependencyNames : preNames = SupportNames \cup deps
    /\ \E pkg \in FilePackages :
          \E r \in {InitResult(order, preNames \cup {BadToUnderscore(pkg)}, <<>>) :
                        order \in IterationOrders} :
             /\ pkgNamesInUse = [p \in Procs |-> IF p = 1 THEN r.inUse ELSE {}]
             /\ uniqueName = [p \in Procs |-> IF p = 1 THEN r.unique ELSE <<>>]
             /\ sortedImportPkgNames = [p \in Procs |-> IF p = 1 THEN r.sorted ELSE <<>>]
             /\ genFile \in [Package : {pkg}, Method : SeqsUpTo(Methods, MaxMethods)]
    /\ inited = [p \in Procs |-> p = 1]
    /\ emitted = <<>>
    /\ resolved = <<>>
    /\ genFailed = FALSE
    /\ imports = <<>>
    /\ importsDone = FALSE
    /\ referenceLines = <<>>
    /\ supportLines = <<>>
    /\ importLines = <<>>

\* importPkgsByName[k].KnownType
KnownType ==
    <<"c", "o", "b", "r", "a">> :> <<"C", "o", "m", "m", "a", "n", "d">> @@
    <<"c", "o", "n", "t", "e", "x", "t">> :> <<"C", "o", "n", "t", "e", "x", "t">> @@
    <<"c", "r", "e", "d", "e", "n", "t", "i", "a", "l", "s">> :> <<"A", "u", "t", "h", "I", "n", "f", "o">> @@
    <<"e", "n", "v", "c", "o", "n", "f", "i", "g">> :> <<"D", "e", "c", "o", "d", "e", "r">> @@
    <<"f", "i", "l", "e", "p", "a", "t", "h">> :> <<"W", "a", "l", "k", "F", "u", "n", "c">> @@
    <<"g", "r", "p", "c">> :> <<"C", "l", "i", "e", "n", "t", "C", "o", "n", "n">> @@
    <<"i", "o">> :> <<"R", "e", "a", "d", "e", "r">> @@
    <<"i", "o", "c", "o", "d", "e", "c">> :> <<"E", "n", "c", "o", "d", "e", "r">> @@
    <<"i", "o", "u", "t", "i", "l">> :> <<"=", "D", "i", "s", "c", "a", "r", "d">> @@
    <<"j", "s", "o", "n">> :> <<"E", "n", "c", "o", "d", "e", "r">> @@
    <<"l", "o", "g">> :> <<"L", "o", "g", "g", "e", "r">> @@
    <<"n", "e", "t">> :> <<"I", "P">> @@
    <<"o", "a", "u", "t", "h">> :> <<"T", "o", "k", "e", "n", "S", "o", "u", "r", "c", "e">> @@
    <<"o", "a", "u", "t", "h", "2">> :> <<"T", "o", "k", "e", "n">> @@
    <<"o", "s">> :> <<"F", "i", "l", "e">> @@
    <<"p", "f", "l", "a", "g">> :> <<"F", "l", "a", "g", "S", "e", "t">> @@
    <<"t", "e", "m", "p", "l", "a", "t", "e">> :> <<"T", "e", "m", "p", "l", "a", "t", "e">> @@
    <<"t", "i", "m", "e">> :> <<"T", "i", "m", "e">> @@
    <<"t", "l", "s">> :> <<"C", "o", "n", "f", "i", "g">> @@
    <<"x", "5", "0", "9">> :> <<"C", "e", "r", "t", "i", "f", "i", "c", "a", "t", "e">>

\* strings.HasPrefix(s, "=")
HasPrefixEq(s) == Len(s) >= 1 /\ s[1] = "="

\* the reference lines Generate prints, one for each of the sorted keys:
\* `var _ = name.Known` for a known value, `var _ name.Known` for a type
ReferenceLines(sortedNames, unique) ==
    [i \in 1..Len(sortedNames) |->
       LET known == KnownType[sortedNames[i]]
       IN IF HasPrefixEq(known)
            THEN [name |-> unique[sortedNames[i]], value |-> TRUE,
                  known |-> SubSeq(known, 2, Len(known))]
            ELSE [name |-> unique[sortedNames[i]], value |-> FALSE,
                  known |-> known]]

\* client.Generate up to its loop over the services: the reference lines.
\* The file has one service; its methods follow one generateSubcommand each
Generate ==
    /\ inited[1]
    /\ referenceLines = <<>>
    /\ referenceLines' = ReferenceLines(sortedImportPkgNames[1], uniqueName[1])
    /\ UNCHANGED <<preNames, genFile, inited, pkgNamesInUse, uniqueName,
                   sortedImportPkgNames, emitted, resolved, genFailed, imports,
                   importsDone, supportLines, importLines>>
    /\ UNCHANGED <<runVars, codecVars, confVars, bankVars>>

\* generateService calls generateSubcommand for the next method of the file
GenerateSubcommand ==
    /\ inited[1]
    /\ referenceLines # <<>>
    /\ ~genFailed
    /\ ~importsDone
    /\ Len(emitted) < Len(genFile.Method)
    /\ LET m == genFile.Method[Len(emitted) + 1]
           data == Subcommand(ServName, genFile, m)
       IN /\ resolved' = Append(resolved, inputNames(m.InputType))
          /\ genFailed' = (ExecuteErr(data) # "nil")
          /\ emitted' = IF ExecuteErr(data) = "nil" THEN Append(emitted, data)
                        ELSE emitted
    /\ UNCHANGED <<preNames, genFile, inited, pkgNamesInUse, uniqueName,
                   sortedImportPkgNames, imports, importsDone, referenceLines,
                   supportLines, importLines>>
    /\ UNCHANGED <<runVars, codecVars, confVars, bankVars>>

GenNext ==
    \/ Generate
    \/ GenerateSubcommand

\* the initial states of SpecGen: the other machines stay idle
GenStart == GenInit /\ RunIdle /\ CodecIdle /\ ConfIdle /\ BankIdle

SpecGen == GenStart /\ [][GenNext]_vars

(***************************************************************************)
(* GenerateImports: the import block of the generated file.                *)
(***************************************************************************)
\* most methods of the file whose import block is generated
MaxTypes == 2
\* most files the file imports
MaxImports == 2

\* importPkgsByName[k].ImportPath
ImportPath ==
    <<"c", "o", "b", "r", "a">> :> "github.com/spf13/cobra" @@
    <<"c", "o", "n", "t", "e", "x", "t">> :> "golang.org/x/net/context" @@
    <<"c", "r", "e", "d", "e", "n", "t", "i", "a", "l", "s">> :> "google.golang.org/grpc/credentials" @@
    <<"e", "n", "v", "c", "o", "n", "f", "i", "g">> :> "github.com/kelseyhightower/envconfig" @@
    <<"f", "i", "l", "e", "p", "a", "t", "h">> :> "path/filepath" @@
    <<"g", "r", "p", "c">> :> "google.golang.org/grpc" @@
    <<"i", "o">> :> "io" @@
    <<"i", "o", "c", "o", "d", "e", "c">> :> "github.com/fiorix/protoc-gen-cobra/iocodec" @@
    <<"i", "o", "u", "t", "i", "l">> :> "io/ioutil" @@
    <<"j", "s", "o", "n">> :> "encoding/json" @@
    <<"l", "o", "g">> :> "log" @@
    <<"n", "e", "t">> :> "net" @@
    <<"o", "a", "u", "t", "h">> :> "google.golang.org/grpc/credentials/oauth" @@
    <<"o", "a", "u", "t", "h", "2">> :> "golang.org/x/oauth2" @@
    <<"o", "s">> :> "os" @@
    <<"p", "f", "l", "a", "g">> :> "github.com/spf13/pflag" @@
    <<"t", "e", "m", "p", "l", "a", "t", "e">> :> "text/template" @@
    <<"t", "i", "m", "e">> :> "time" @@
    <<"t", "l", "s">> :> "crypto/tls" @@
    <<"x", "5", "0", "9">> :> "crypto/x509"

\* the files the generated file may import: their package clause and their
\* go_package option (empty when the file has none); two of them are files of
\* one package with different go_package options
ImportFiles ==
    { [Package |-> <<"p", "b">>, GoPackage |-> <<>>],
      [Package |-> <<"p", "b">>, GoPackage |-> <<"e", "x", "a", "m", "p", "l", "e", "/", "p", "b">>],
      [Package |-> <<"b", "a", "n", "k", ".", "v", "1">>, GoPackage |-> <<"e", "x", "a", "m", "p", "l", "e", "/", "b", "a", "n", "k">>],
      [Package |-> <<"b", "a", "n", "k", "_", "v", "1">>, GoPackage |-> <<>>],
      [Package |-> <<"c", "a", "c", "h", "e", ".", "v", "2", ".", "s", "u", "b">>, GoPackage |-> <<>>] }

\* strconv.Quote of a path without characters to escape
Quote(x) == <<"\"">> \o x \o <<"\"">>

\* importPathByPackage after the loop over imports[i..]: a later file of
\* the same package replaces the path of an earlier one
RECURSIVE PathByPackage(_, _, _, _)
PathByPackage(f, imps, i, acc) ==
    IF i > Len(imps) THEN acc
    ELSE LET imp == imps[i]
         IN IF f.Package = imp.Package
              THEN PathByPackage(f, imps, i + 1, acc)
              ELSE PathByPackage(f, imps, i + 1,
                     (imp.Package :>
                        (IF imp.GoPackage # <<>> THEN Quote(imp.GoPackage)
                         ELSE Quote(imp.Package))) @@ acc)

\* importedPackagesByName after the loop over the methods [i..] of the
\* service: the alias of every input type whose package an import has
RECURSIVE PackagesByName(_, _, _, _)
PackagesByName(meths, byPkg, i, acc) ==
    IF i > Len(meths) THEN acc
    ELSE LET n == inputNames(meths[i].InputType)
         IN IF n.inputPackage \in DOMAIN byPkg
              THEN PackagesByName(meths, byPkg, i + 1,
                     (n.importName :> byPkg[n.inputPackage]) @@ acc)
              ELSE PackagesByName(meths, byPkg, i + 1, acc)

\* the keys of a map in the order a range takes, which sort.Strings undoes
RECURSIVE KeysOf(_)
KeysOf(S) ==
    IF S = {} THEN <<>>
    ELSE LET k == CHOOSE x \in S : TRUE IN <<k>> \o KeysOf(S \ {k})

\* the lines GenerateImports prints for the packages of input types
ImportedLines(f, imps) ==
    LET byPkg == PathByPackage(f, imps, 1, <<>>)
        byName == PackagesByName(f.Method, byPkg, 1, <<>>)
        importedPackageNames == SortStrings(KeysOf(DOMAIN byName))
    IN [i \in 1..Len(importedPackageNames) |->
          [name |-> importedPackageNames[i],
           path |-> byName[importedPackageNames[i]]]]

\* the lines GenerateImports prints for the keys of importPkgsByName
SupportLines(sortedNames, unique) ==
    [i \in 1..Len(sortedNames) |->
       [name |-> unique[sortedNames[i]], path |-> ImportPath[sortedNames[i]]]]

\* methods of the file whose import block is generated
UnaryMethods ==
    [Name : {<<"D", "e", "p", "o", "s", "i", "t">>}, InputType : InputTypes,
     ClientStream : {FALSE}, ServerStream : {FALSE}]

\* the plugin initialised, the file and its imports handed over
ImportsInit ==
    /\ preNames = SupportNames
    /\ \E pkg \in FilePackages :
          \E r \in {InitResult(order, preNames \cup {BadToUnderscore(pkg)}, <<>>) :
                        order \in IterationOrders} :
             /\ pkgNamesInUse = [p \in Procs |-> IF p = 1 THEN r.inUse ELSE {}]
             /\ uniqueName = [p \in Procs |-> IF p = 1 THEN r.unique ELSE <<>>]
             /\ sortedImportPkgNames = [p \in Procs |-> IF p = 1 THEN r.sorted ELSE <<>>]
             /\ genFile \in [Package : {pkg}, Method : SeqsUpTo(UnaryMethods, MaxTypes)]
    /\ imports \in SeqsUpTo(ImportFiles, MaxImports)
    /\ inited = [p \in Procs |-> p = 1]
    /\ emitted = <<>>
    /\ resolved = <<>>
    /\ genFailed = FALSE
    /\ importsDone = FALSE
    /\ referenceLines = <<>>
    /\ supportLines = <<>>
    /\ importLines = <<>>

\* client.GenerateImports, which the generator calls once the body of the
\* file is generated
GenerateImports ==
    /\ inited[1]
    /\ ~genFailed
    /\ ~importsDone
    /\ referenceLines # <<>>
    /\ Len(emitted) = Len(genFile.Method)
    /\ supportLines' = SupportLines(sortedImportPkgNames[1], uniqueName[1])
    /\ importLines' = ImportedLines(genFile, imports)
    /\ importsDone' = TRUE
    /\ UNCHANGED <<preNames, genFile, inited, pkgNamesInUse, uniqueName,
                   sortedImportPkgNames, emitted, resolved, genFailed, imports,
                   referenceLines>>
    /\ UNCHANGED <<runVars, codecVars, confVars, bankVars>>

ImportsNext ==
    \/ Generate
    \/ GenerateSubcommand
    \/ GenerateImports

\* the initial states of SpecImports: the other machines stay idle
ImportsStart == ImportsInit /\ RunIdle /\ CodecIdle /\ ConfIdle /\ BankIdle

SpecImports == ImportsStart /\ [][ImportsNext]_vars


\* the segments the input type of the i-th method was written from
SegmentsOf(i) ==
    CHOOSE segs \in TypeSegments : genFile.Method[i].InputType = DottedPath(segs)

\* s1 sep s2 sep ... sep sn, built segment by segment
RECURSIVE Glued(_, _, _)
Glued(segs, n, sep) ==
    IF n = 0 THEN <<>>
    ELSE IF n = 1 THEN segs[1]
    ELSE Glued(segs, n - 1, sep) \o sep \o segs[n]

\* the file of the imports whose package is pkg and that is not of the
\* package of the generated file
MatchedBy(pkg) ==
    {imps \in {imports[k] : k \in 1..Len(imports)} :
        imps.Package = pkg /\ pkg # genFile.Package}

\* the quoted import path of an imported file
PathOf(imp) ==
    IF imp.GoPackage # <<>> THEN Quote(imp.GoPackage) ELSE Quote(imp.Package)

\* C11: the aliases inputNames derives for two distinct packages of the
\* input types of the file are distinct.
C11_AliasesInjective ==
    \A i, j \in 1..Len(resolved) :
        (resolved[i].inputPackage # <<>> /\ resolved[j].inputPackage # <<>>
           /\ resolved[i].inputPackage # resolved[j].inputPackage)
        => resolved[i].importName # resolved[j].importName

\* the aliases are distinct for packages that differ in more than the
\* separator between their segments
C11_AliasesInjectiveModuloSeparators ==
    \A i, j \in 1..Len(resolved) :
        BadToUnderscore(resolved[i].inputPackage)
           # BadToUnderscore(resolved[j].inputPackage)
        => resolved[i].importName # resolved[j].importName

C12_HoldsForUndottedPackage ==
    \A i \in 1..Len(emitted) :
        LET segs == SegmentsOf(i)
        IN (Len(segs) = 2 /\ segs[1] = genFile.Package)
           => /\ emitted[i].InputPackage = <<>>
              /\ emitted[i].VarType = segs[2]
              /\ resolved[i].inputPackage = genFile.Package
              /\ resolved[i].inputType = segs[2]

\* C13: inputNames of `.s1.s2...sk` is the alias s1_..._s(k-1)_pb, the
\* package s1.....s(k-1) and the type sk when k >= 2, and an empty alias
\* and an empty package when k < 2.
C13_InputNamesDecomposes ==
    \A i \in 1..Len(resolved) :
        LET segs == SegmentsOf(i)
            k == Len(segs)
        IN IF k >= 2
             THEN /\ resolved[i].importName
                       = Glued(segs, k - 1, <<"_">>) \o <<"_", "p", "b">>
                  /\ resolved[i].inputPackage = Glued(segs, k - 1, <<".">>)
                  /\ resolved[i].inputType = segs[k]
             ELSE /\ resolved[i].importName = <<>>
                  /\ resolved[i].inputPackage = <<>>

\* `.cache.v2.sub.GetRequest` and a bare type name, both resolved
C13_Witness ==
    /\ Len(resolved) = 2
    /\ genFile.Method[1].InputType = <<".", "c", "a", "c", "h", "e", ".", "v", "2", ".", "s", "u", "b", ".", "G", "e", "t", "R", "e", "q", "u", "e", "s", "t">>
    /\ resolved[1] = [importName |-> <<"c", "a", "c", "h", "e", "_", "v", "2", "_", "s", "u", "b", "_", "p", "b">>,
                      inputPackage |-> <<"c", "a", "c", "h", "e", ".", "v", "2", ".", "s", "u", "b">>,
                      inputType |-> <<"G", "e", "t", "R", "e", "q", "u", "e", "s", "t">>]
    /\ genFile.Method[2].InputType = <<".", "G", "e", "t", "R", "e", "q", "u", "e", "s", "t">>
    /\ resolved[2].importName = <<>>

\* C18: a method whose input type has fewer than two segments makes the
\* generation fail, and no subcommand with an empty input type is emitted.
C18_MalformedReferenceIsError ==
    /\ \A i \in 1..Len(emitted) : emitted[i].InputType # <<>>
    /\ \A i \in 1..Len(resolved) : Len(SegmentsOf(i)) < 2 => genFailed

\* a malformed reference is generated as a subcommand with an empty alias
\* and an empty type, without an error
C18_MalformedReferenceIsEmitted ==
    /\ ~genFailed
    /\ Len(emitted) = Len(resolved)
    /\ \A i \in 1..Len(emitted) :
          Len(SegmentsOf(i)) < 2 => emitted[i].VarType = <<>>

\* C19: an input type of a package that is not the package of the file and
\* that no imported file has: generation does not fail, no import line is
\* printed for the package, the subcommand names the type unqualified.
C19_UnresolvedLeftUnaliased ==
    importsDone =>
        \A i \in 1..Len(emitted) :
            LET pkg == resolved[i].inputPackage
            IN (pkg # <<>> /\ pkg # genFile.Package
                  /\ \A k \in 1..Len(imports) : imports[k].Package # pkg)
               => /\ ~genFailed
                  /\ \A l \in 1..Len(importLines) : importLines[l].path # Quote(pkg)
                  /\ emitted[i].InputPackage = <<>>

\* generation does not fail and no line is printed for the package, but
\* the subcommand names the type with the alias of the package, unless
\* the package is the Go package name of the file
C19_UnresolvedKeepsAlias ==
    importsDone =>
        \A i \in 1..Len(emitted) :
            LET pkg == resolved[i].inputPackage
            IN (pkg # <<>> /\ pkg # genFile.Package
                  /\ \A k \in 1..Len(imports) : imports[k].Package # pkg)
               => /\ ~genFailed
                  /\ \A l \in 1..Len(importLines) : importLines[l].path # Quote(pkg)
                  /\ emitted[i].InputPackage =
                        IF pkg = PackageName(genFile) THEN <<>>
                        ELSE resolved[i].importName

\* the packages of input types of the file that an imported file has
ReferencedAndMatched ==
    ({resolved[i].inputPackage : i \in 1..Len(resolved)}
       \cap {imports[k].Package : k \in 1..Len(imports)})
    \ {genFile.Package}

\* C20: the lines GenerateImports prints for input types are one line per
\* package that an input type of the file is of and an imported file has;
\* none is for the package of the file, none for an imported file no input
\* type is of, and every qualifier of a subcommand has its line.
C20_ImportLinesExact ==
    importsDone =>
        /\ Len(importLines) = Cardinality(ReferencedAndMatched)
        /\ \A pkg \in ReferencedAndMatched :
              \E l \in 1..Len(importLines) :
                 \E imp \in MatchedBy(pkg) : importLines[l].path = PathOf(imp)
        /\ \A l \in 1..Len(importLines) :
              \E pkg \in ReferencedAndMatched :
                 \E imp \in MatchedBy(pkg) : importLines[l].path = PathOf(imp)
        /\ \A i \in 1..Len(emitted) :
              emitted[i].InputPackage # <<>> =>
                 \E l \in 1..Len(importLines) :
                    importLines[l].name = emitted[i].InputPackage

\* every line is for a package that an input type is of and an imported
\* file has, and never for the package of the file
C20_LinesAreReferencedAndMatched ==
    importsDone =>
        \A l \in 1..Len(importLines) :
           \E pkg \in ReferencedAndMatched :
              \E imp \in MatchedBy(pkg) : importLines[l].path = PathOf(imp)


\* the sequences that list the elements of a in another order
Reorderings(a) ==
    {[i \in 1..Len(a) |-> a[f[i]]] :
        f \in {g \in [1..Len(a) -> 1..Len(a)] :
                  \A i, j \in 1..Len(a) : g[i] = g[j] => i = j}}

\* the key of importPkgsByName a support import line is printed for
KeyOfLine(line) == CHOOSE k \in KeySet : ImportPath[k] = line.path

\* the support import lines and the reference lines are one per key, in
\* strictly increasing order of key, and the lines for the packages of input
\* types are in strictly increasing order of alias
C21_BlockSorted ==
    importsDone =>
        /\ Len(supportLines) = Cardinality(KeySet)
        /\ Len(referenceLines) = Cardinality(KeySet)
        /\ \A i \in 1..Len(supportLines) :
              /\ \E k \in KeySet : ImportPath[k] = supportLines[i].path
              /\ supportLines[i].name = uniqueName[1][KeyOfLine(supportLines[i])]
              /\ referenceLines[i].name = supportLines[i].name
              /\ LET known == KnownType[KeyOfLine(supportLines[i])]
                 IN IF referenceLines[i].value
                      THEN known = <<"=">> \o referenceLines[i].known
                      ELSE known = referenceLines[i].known
        /\ \A i \in 1..(Len(supportLines) - 1) :
              StrLess(KeyOfLine(supportLines[i]), KeyOfLine(supportLines[i + 1]))
        /\ \A i \in 1..(Len(importLines) - 1) :
              StrLess(importLines[i].name, importLines[i + 1].name)

\* C21: in the generated file the support import lines and the reference
\* lines are in strictly increasing order of support key, each key once, the
\* lines for the packages of input types follow in strictly increasing order
\* of alias, and the import block is the same whatever the order in which
\* the methods and the imported files of the file are listed.
C21_ImportBlockSortedAndStable ==
    /\ C21_BlockSorted
    /\ importsDone =>
          \A ms \in Reorderings(genFile.Method) :
             \A is \in Reorderings(imports) :
                ImportedLines([genFile EXCEPT !.Method = ms], is) = importLines

\* the import block is the same whatever the order of the methods and of
\* the imported files when the imported files are of distinct packages and
\* the packages of the input types have distinct aliases
C21_StableForDistinctPackagesAndAliases ==
    (/\ importsDone
     /\ \A i, j \in 1..Len(imports) :
           imports[i].Package = imports[j].Package => imports[i] = imports[j]
     /\ \A i, j \in 1..Len(resolved) :
           resolved[i].importName = resolved[j].importName
              => resolved[i].inputPackage = resolved[j].inputPackage)
    => \A ms \in Reorderings(genFile.Method) :
          \A is \in Reorderings(imports) :
             ImportedLines([genFile EXCEPT !.Method = ms], is) = importLines


\* the four shapes of section 4.3, as statement sequences
ShapeTable(ClientStream, ServerStream) ==
    IF ~ClientStream /\ ~ServerStream
      THEN <<"DecodeOne", "CallUnary", "EncodeResp">>
    ELSE IF ClientStream /\ ~ServerStream
      THEN <<"OpenStream", "SendLoop", "CloseAndRecv", "EncodeResp">>
    ELSE IF ~ClientStream /\ ServerStream
      THEN <<"DecodeOne", "CallStream", "RecvLoop", "ReturnNil">>
    ELSE <<"OpenStream", "SendLoop", "RecvLoop", "ReturnNil">>

\* C1: the body generated for a method is the shape the table gives for its
\* (ClientStream, ServerStream) pair, whatever the method's name, its input
\* type and the package of the file.
C1_ShapeSelectedByStreamFlags ==
    \A i \in 1..Len(emitted) :
        LET m == genFile.Method[i]
        IN emitted[i].Body = ShapeTable(m.ClientStream, m.ServerStream)

\* a server-streaming method of a file in a dotted package
C1_Witness ==
    /\ Len(emitted) = 1
    /\ ~emitted[1].ClientStream /\ emitted[1].ServerStream
    /\ emitted[1].Body = <<"DecodeOne", "CallStream", "RecvLoop", "ReturnNil">>
    /\ genFile.Package = <<"b", "a", "n", "k", ".", "v", "1">>

\* C10: the alias table and the sorted key list that client.Init leaves do
\* not depend on the order in which it ranges over the key table: two runs
\* on the same request leave the same.
C10_InitIsDeterministic ==
    (inited[1] /\ inited[2]) =>
        /\ uniqueName[1] = uniqueName[2]
        /\ sortedImportPkgNames[1] = sortedImportPkgNames[2]

\* the sorted key list alone is the same in every run
C10_SortedKeysAreDeterministic ==
    (inited[1] /\ inited[2]) =>
        /\ sortedImportPkgNames[1] = sortedImportPkgNames[2]
        /\ Len(sortedImportPkgNames[1]) = Len(ImportPkgKeys)

\* the alias table is the same in every run unless a name and its
\* successor with the suffix 1 are both taken before Init
C10_AliasesDeterministicWithoutOauth1 ==
    (inited[1] /\ inited[2]
       /\ ~({<<"o", "a", "u", "t", "h">>, <<"o", "a", "u", "t", "h", "1">>}
              \subseteq preNames)) =>
        uniqueName[1] = uniqueName[2]

(***************************************************************************)
(* The Bank of the example server: concurrent Deposit calls.               *)
(***************************************************************************)
\* most Deposit calls in flight
MaxCalls == 2

Calls == 1..MaxCalls

\* in.Account of a request; "" is the zero value
BankAccounts == {"", "alice", "bob"}

\* in.Amount of a request: whole amounts, which float64 adds exactly
Amounts == {-1, 1, 2}

DepositRequests == [Account : BankAccounts, Amount : Amounts]

\* NewBank, and the gRPC server about to serve one Deposit per call, each in
\* a goroutine of its own
BankInit ==
    /\ mu = 0
    /\ accountBalance = [a \in BankAccounts |-> 0]
    /\ \E reqs \in [Calls -> DepositRequests] :
          calls = [c \in Calls |->
                     [in |-> reqs[c], pc |-> "check", v |-> 0, prior |-> 0,
                      reply |-> [Account |-> "", Balance |-> 0], err |-> "nil"]]

\* if in.Account == "" { return nil, grpc.Errorf(codes.InvalidArgument, ...) }
DepositCheck(c) ==
    /\ calls[c].pc = "check"
    /\ calls' = [calls EXCEPT ![c] =
                   IF calls[c].in.Account = ""
                     THEN [@ EXCEPT !.pc = "done", !.err = "InvalidArgument"]
                     ELSE [@ EXCEPT !.pc = "lock"]]
    /\ UNCHANGED <<mu, accountBalance>>
    /\ UNCHANGED <<runVars, codecVars, genVars, confVars>>

\* a mutex any goroutine takes whether or not it is held
LockFreeForAll(m) == TRUE

\* sync.Mutex.Lock returns only while no goroutine holds the mutex
LockFree(m) == m = 0

\* b.mu.Lock()
DepositLock(c) ==
    /\ calls[c].pc = "lock"
    /\ LockFree(mu)
    /\ mu' = c
    /\ calls' = [calls EXCEPT ![c].pc = "add"]
    /\ UNCHANGED accountBalance
    /\ UNCHANGED <<runVars, codecVars, genVars, confVars>>

\* v := b.accountBalance[in.Account] + in.Amount
DepositAdd(c) ==
    /\ calls[c].pc = "add"
    /\ calls' = [calls EXCEPT ![c].pc = "store",
                              ![c].v = accountBalance[calls[c].in.Account]
                                         + calls[c].in.Amount]
    /\ UNCHANGED <<mu, accountBalance>>
    /\ UNCHANGED <<runVars, codecVars, genVars, confVars>>

\* b.accountBalance[in.Account] = v; prior keeps the balance the store
\* replaces
DepositStore(c) ==
    /\ calls[c].pc = "store"
    /\ accountBalance' = [accountBalance EXCEPT ![calls[c].in.Account] = calls[c].v]
    /\ calls' = [calls EXCEPT ![c].pc = "unlock",
                              ![c].prior = accountBalance[calls[c].in.Account]]
    /\ UNCHANGED mu
    /\ UNCHANGED <<runVars, codecVars, genVars, confVars>>

\* b.mu.Unlock()
DepositUnlock(c) ==
    /\ calls[c].pc = "unlock"
    /\ mu' = 0
    /\ calls' = [calls EXCEPT ![c].pc = "reply"]
    /\ UNCHANGED accountBalance
    /\ UNCHANGED <<runVars, codecVars, genVars, confVars>>

\* reply := &pb.DepositReply{Account: in.Account, Balance: v}; return reply, nil
DepositReturn(c) ==
    /\ calls[c].pc = "reply"
    /\ calls' = [calls EXCEPT ![c].pc = "done",
                              ![c].reply = [Account |-> calls[c].in.Account,
                                            Balance |-> calls[c].v]]
    /\ UNCHANGED <<mu, accountBalance>>
    /\ UNCHANGED <<runVars, codecVars, genVars, confVars>>

Deposit(c) ==
    \/ DepositCheck(c)
    \/ DepositLock(c)
    \/ DepositAdd(c)
    \/ DepositStore(c)
    \/ DepositUnlock(c)
    \/ DepositReturn(c)

BankNext == \E c \in Calls : Deposit(c)

\* the initial states of SpecBank: the other machines stay idle
BankStart == BankInit /\ RunIdle /\ CodecIdle /\ GenIdle /\ ConfIdle

SpecBank == BankStart /\ [][BankNext]_vars

\* a call that has returned a reply and no error
Succeeded(c) == calls[c].pc = "done" /\ calls[c].err = "nil"

\* the sum of the amounts of the calls of S
RECURSIVE SumOfAmounts(_)
SumOfAmounts(S) ==
    IF S = {} THEN 0
    ELSE LET c == CHOOSE x \in S : TRUE
         IN calls[c].in.Amount + SumOfAmounts(S \ {c})

\* C23: whatever the interleaving of concurrent Deposit calls, no update is
\* lost: the balance of a successful reply is the balance of the account
\* immediately before the deposit plus the amount; once every call has
\* returned, the balance of each account is the sum of the amounts of the
\* successful deposits to it; a Deposit with an empty account name returns
\* an error, and no step of it changes a balance.
C23_NoLostDeposit ==
    /\ [](\A c \in DOMAIN calls :
             Succeeded(c) =>
                /\ calls[c].reply.Account = calls[c].in.Account
                /\ calls[c].reply.Balance = calls[c].prior + calls[c].in.Amount)
    /\ []((\A c \in DOMAIN calls : calls[c].pc = "done") =>
             \A a \in DOMAIN accountBalance :
                accountBalance[a] =
                   SumOfAmounts({c \in DOMAIN calls :
                                   Succeeded(c) /\ calls[c].in.Account = a}))
    /\ [](\A c \in DOMAIN calls :
             calls[c].in.Account = "" /\ calls[c].pc = "done"
                => calls[c].err = "InvalidArgument")
    /\ [][\A c \in DOMAIN calls :
             calls[c].in.Account = "" /\ calls'[c] # calls[c]
                => accountBalance' = accountBalance]_vars

\* two deposits to one account have both returned, the second on top of the
\* first, beside what other calls did
C23_Witness ==
    /\ \A c \in DOMAIN calls : calls[c].pc = "done"
    /\ \E c, d \in DOMAIN calls :
          /\ c # d
          /\ Succeeded(c) /\ Succeeded(d)
          /\ calls[c].in.Account = calls[d].in.Account
          /\ calls[d].prior = calls[c].reply.Balance
          /\ calls[c].in.Amount # 0

=============================================================================
